---------------------------- MODULE Spec2Model ----------------------------
(***************************************************************************)
(* A model of the IceOut client: the API client (IceOutApi: the session   *)
(* token, the request interceptor, login(), getReports(),                 *)
(* getStopIceReports(), subscribeToAlerts(), unsubscribeFromAlerts()) and *)
(* the initialization sequence of the Home page that merges the two       *)
(* report feeds.                                                          *)
(*                                                                         *)
(* The servers, the proof-of-work library and the browser are the         *)
(* environment: every response, solver result and lookup result is a      *)
(* nondeterministic choice from a small set.                              *)
(*                                                                         *)
(* The specifications share the variables:                                *)
(*   Spec       the API client driven by arbitrary callers,               *)
(*   SpecFeed   the secondary-feed (StopIce) parser, one document per run,*)
(*   SpecHome   the Home initialization sequence and the feed merge,      *)
(*   SpecAlert  the alert handlers of Home and the backend's alert lists  *)
(*              (SpecAlertFair: the same with awaited calls that settle   *)
(*              and timers that fire),                                    *)
(*   SpecNotify NotificationService.initialize() and cleanup(),           *)
(*   SpecMap    the map of MapView on two devices, same user actions.     *)
(***************************************************************************)
EXTENDS Integers, Sequences, FiniteSets, TLC

VARIABLES
  csrfToken,   \* IceOutApi.ts:14      let csrfToken: string | null
  login,       \* one record per login() invocation: its position and locals
  fetch,       \* one record per getReports() invocation
  alert,       \* one record per subscribeToAlerts()/unsubscribeFromAlerts() invocation
  last,        \* the step taken last: its input, the request it sent, csrfToken before it
  feed,        \* getStopIceReports(): the document being parsed, the loop index, `reports`
  home,        \* Home.tsx: the component state the initialization sequence touches
  ui,          \* Home.tsx: the component state the alert handlers touch
  server,      \* the backend's alert list of each push endpoint (the alerts' ids)
  notif,       \* NotificationService: isInitialized and the initialize() calls
  map          \* MapView.tsx: the map of two runs on two devices, side by side

vars == <<csrfToken, login, fetch, alert, last, feed, home, ui, server, notif, map>>

-----------------------------------------------------------------------------
(* Bounds of the model.                                                    *)

MaxInFlight == 2     \* API calls (of any kind) that may be in flight at once

LoginIds == 1..MaxInFlight
FetchIds == 1..MaxInFlight
AlertIds == 1..MaxInFlight

-----------------------------------------------------------------------------
(* JavaScript values.                                                      *)

Undefined == "<undefined>"
Null      == "<null>"

\* JavaScript truthiness of a string-or-null-or-undefined value.
Truthy(v) == v \notin {Undefined, Null, ""}

Tokens == {"tokA", "tokB"}

\* What a response body may hold in its csrf_token field: nothing, the empty
\* string, a token.
TokenFields == Tokens \cup {Undefined, ""}

\* The four fields of an ALTCHA challenge.  The server puts BodyChallenge in
\* a response body and HeaderChallenge in an X-Altcha header, so that the two
\* places can be told apart.
BodyChallenge ==
  [algorithm |-> "SHA-256", challenge |-> "c1", salt |-> "s1", signature |-> "g1"]
HeaderChallenge ==
  [algorithm |-> "SHA-256", challenge |-> "c2", salt |-> "s2", signature |-> "g2"]

ChallengeSet == {BodyChallenge, HeaderChallenge}

NoChallenge ==
  [algorithm |-> Undefined, challenge |-> Undefined, salt |-> Undefined, signature |-> Undefined]

\* A response body: csrf_token plus the challenge fields.  A missing body
\* (response.data falsy) reads like a body with every field undefined.
Body(tok, ch) ==
  [csrf_token |-> tok, algorithm |-> ch.algorithm, challenge |-> ch.challenge,
   salt |-> ch.salt, signature |-> ch.signature]

Bodies == { Body(t, ch) : t \in TokenFields, ch \in {BodyChallenge, NoChallenge} }

\* The X-Altcha response header: absent, raw JSON text, base64 of the JSON
\* text (possibly wrapped in quotes), or text that is neither.
JsonText(v)  == [enc |-> "json", of |-> v]
Base64(v)    == [enc |-> "b64", of |-> v]
NoHeader     == [enc |-> "none", of |-> NoChallenge]
JunkHeader   == [enc |-> "junk", of |-> NoChallenge]

AltchaHeaders ==
  {NoHeader, JunkHeader, JsonText(HeaderChallenge), Base64(JsonText(HeaderChallenge))}

InitialResponses == [data : Bodies, xAltcha : AltchaHeaders]

NoResponse == [data |-> Body(Undefined, NoChallenge), xAltcha |-> [enc |-> "unset", of |-> NoChallenge]]

\* Error objects.  An error keeps its identity through a rethrow; a wrapped
\* error is another object with another name and message.
\* detail is error.response?.data?.message, the message the server put in its
\* error body, when there is one.
NoError == [name |-> "none", message |-> "", status |-> 0, detail |-> Undefined]

ClientError(msg) == [name |-> "Error", message |-> msg, status |-> 0, detail |-> Undefined]

NetworkError ==
  [name |-> "AxiosError", message |-> "Network Error", status |-> 0, detail |-> Undefined]
Http401 ==
  [name |-> "AxiosError", message |-> "Request failed with status code 401", status |-> 401,
   detail |-> Undefined]
Http403 ==
  [name |-> "AxiosError", message |-> "Request failed with status code 403", status |-> 403,
   detail |-> "Forbidden"]

AxiosErrors == {NetworkError, Http401, Http403}

SyntaxError ==
  [name |-> "SyntaxError", message |-> "Unexpected token", status |-> 0, detail |-> Undefined]

ProtocolError ==
  ClientError("Server response does not contain authentication or ALTCHA challenge")

UnsolvedError == ClientError("Failed to solve Altcha challenge")

\* solveChallenge(...).promise resolves to a solution or to null.
NoSolution == [found |-> FALSE, number |-> 0, took |-> 0]
Solutions  == { [found |-> TRUE, number |-> 7, took |-> 3] }



-----------------------------------------------------------------------------
(* The axios instance `api` and its request interceptor.                   *)

\* An interceptor that read csrfToken once, when the instance was created.
Interceptor_Stale(tok) ==
  [xApiVersion |-> "1.3", xCsrfToken |-> Undefined]

\* The headers the request interceptor leaves on a request, given the value
\* of csrfToken when the request passes through it.
Interceptor(tok) ==
  [xApiVersion |-> "1.3", xCsrfToken |-> IF Truthy(tok) THEN tok ELSE Undefined]

\* A request as it leaves the interceptor.
Request(method, url, body) ==
  [method |-> method, url |-> url, headers |-> Interceptor(csrfToken), body |-> body]

NoRequest ==
  [method |-> "none", url |-> "", headers |-> [xApiVersion |-> Undefined, xCsrfToken |-> Undefined],
   body |-> [empty |-> TRUE]]

\* The record of a step: the operation, the invocation, what the environment
\* handed to it, the request it sent, and csrfToken as it was before it.
\* call is the invocation's record as the step left it: when the step ends
\* the call (pc "returned" or "threw") this is all that remains of it, its
\* slot being free again.
NoStep ==
  [op |-> "none", kind |-> "none", id |-> 0, call |-> [pc |-> "idle"], resp |-> NoResponse,
   tok |-> Undefined, error |-> NoError, solution |-> NoSolution, request |-> NoRequest,
   tokenBefore |-> Null,
   args |-> [subscription |-> Undefined, found |-> Undefined, center |-> <<0, 0>>,
             radiusMeters |-> 0]]

Step(op, kind, id, call) ==
  [NoStep EXCEPT !.op = op, !.kind = kind, !.id = id, !.call = call,
                 !.tokenBefore = csrfToken]

Finished(call) == call.pc \in {"returned", "threw"}

\* An invocation takes the lowest free slot of its kind.
LowestIdle(slots, i) == slots[i].pc = "idle" /\ \A j \in 1..(i - 1) : slots[j].pc # "idle"

\* The number of calls that have begun and whose result nobody has taken yet.
InFlight ==
  Cardinality({c \in LoginIds : login[c].pc # "idle"})
    + Cardinality({f \in FetchIds : fetch[f].pc # "idle"})
    + Cardinality({a \in AlertIds : alert[a].pc # "idle"})

-----------------------------------------------------------------------------
(* login()                                                                 *)

\* nInitial and nSubmit count the first requests and the submissions the call
\* has sent, nSolve the challenges it has obtained and handed to
\* solveChallenge, writes its assignments to csrfToken.
LoginIdle ==
  [pc |-> "idle", nInitial |-> 0, nSubmit |-> 0, nSolve |-> 0, challengeData |-> NoChallenge,
   solution |-> NoSolution, writes |-> 0, err |-> NoError]

\* rawHeader.trim(), then JSON.parse of the text itself when it starts with
\* '{', else of atob of the text with its quotes removed.  The result is
\* [ok, value]: ok is FALSE when atob or JSON.parse throws.
ParseAltchaHeader(h) ==
  IF h.enc = "json" THEN [ok |-> TRUE, value |-> h.of]
  ELSE IF h.enc = "b64" /\ h.of.enc = "json" THEN [ok |-> TRUE, value |-> h.of.of]
  ELSE [ok |-> FALSE, value |-> NoChallenge]

\* InitialStep with the challenge looked for before the token.
InitialStep_ChallengeFirst(resp) ==
  IF resp.xAltcha.enc # "none"
  THEN LET parsed == ParseAltchaHeader(resp.xAltcha) IN
       IF parsed.ok
       THEN [next |-> "solving", write |-> FALSE, token |-> Undefined,
             challengeData |-> parsed.value, err |-> NoError]
       ELSE [next |-> "threw", write |-> FALSE, token |-> Undefined,
             challengeData |-> NoChallenge, err |-> SyntaxError]
  ELSE IF Truthy(resp.data.challenge)
  THEN [next |-> "solving", write |-> FALSE, token |-> Undefined,
        challengeData |-> [f \in DOMAIN NoChallenge |-> resp.data[f]], err |-> NoError]
  ELSE IF Truthy(resp.data.csrf_token)
  THEN [next |-> "returned", write |-> TRUE, token |-> resp.data.csrf_token,
        challengeData |-> NoChallenge, err |-> NoError]
  ELSE [next |-> "threw", write |-> FALSE, token |-> Undefined,
        challengeData |-> NoChallenge, err |-> ProtocolError]

\* InitialStep without the else branch of line 92: a response with nothing
\* in it is taken for a challenge in the body.
InitialStep_NoProtocolCheck(resp) ==
  IF Truthy(resp.data.csrf_token)
  THEN [next |-> "returned", write |-> TRUE, token |-> resp.data.csrf_token,
        challengeData |-> NoChallenge, err |-> NoError]
  ELSE IF resp.xAltcha.enc = "none"
  THEN [next |-> "solving", write |-> FALSE, token |-> Undefined,
        challengeData |-> [f \in DOMAIN NoChallenge |-> resp.data[f]], err |-> NoError]
  ELSE LET parsed == ParseAltchaHeader(resp.xAltcha) IN
       IF parsed.ok
       THEN [next |-> "solving", write |-> FALSE, token |-> Undefined,
             challengeData |-> parsed.value, err |-> NoError]
       ELSE [next |-> "threw", write |-> FALSE, token |-> Undefined,
             challengeData |-> NoChallenge, err |-> SyntaxError]

\* The effect of lines 68-109 on one response to the first request: where
\* the call goes next, whether it assigns csrfToken and to what, the
\* challenge it holds, the error it throws.
InitialStep(resp) ==
  IF Truthy(resp.data.csrf_token)
  THEN [next |-> "returned", write |-> TRUE, token |-> resp.data.csrf_token,
        challengeData |-> NoChallenge, err |-> NoError]
  ELSE IF resp.xAltcha.enc = "none"
  THEN IF Truthy(resp.data.challenge)
       THEN [next |-> "solving", write |-> FALSE, token |-> Undefined,
             challengeData |-> [f \in DOMAIN NoChallenge |-> resp.data[f]],
             err |-> NoError]
       ELSE [next |-> "threw", write |-> FALSE, token |-> Undefined,
             challengeData |-> NoChallenge, err |-> ProtocolError]
  ELSE LET parsed == ParseAltchaHeader(resp.xAltcha) IN
       IF parsed.ok
       THEN [next |-> "solving", write |-> FALSE, token |-> Undefined,
             challengeData |-> parsed.value, err |-> NoError]
       ELSE [next |-> "threw", write |-> FALSE, token |-> Undefined,
             challengeData |-> NoChallenge, err |-> SyntaxError]

\* btoa(JSON.stringify(payloadObj)) and the submission built around it.
SubmissionData(cd, solution) ==
  [signature |-> cd.signature,
   payload |-> Base64(JsonText(
     [algorithm |-> cd.algorithm, challenge |-> cd.challenge, number |-> solution.number,
      salt |-> cd.salt, signature |-> cd.signature, took |-> solution.took]))]

\* SolveStep without the check of line 113.
SolveStep_SubmitAnyway(solution) ==
  [next |-> "awaitSubmit", write |-> FALSE, token |-> Undefined, err |-> NoError]

\* Line 113: a missing solution is an error, otherwise the call submits.
SolveStep(solution) ==
  IF solution.found
  THEN [next |-> "awaitSubmit", write |-> FALSE, token |-> Undefined, err |-> NoError]
  ELSE [next |-> "threw", write |-> FALSE, token |-> Undefined, err |-> UnsolvedError]

\* SubmitOkStep that forgets to store the token.
SubmitOkStep_NoStore(data) ==
  [next |-> "returned", write |-> FALSE, token |-> Undefined, err |-> NoError]

\* Lines 136-144: the submission succeeded; the token is stored if available.
SubmitOkStep(data) ==
  IF Truthy(data.csrf_token)
  THEN [next |-> "returned", write |-> TRUE, token |-> data.csrf_token, err |-> NoError]
  ELSE [next |-> "returned", write |-> FALSE, token |-> Undefined, err |-> NoError]

\* SubmitFailStep that throws a new Error in place of the one it caught, the
\* way subscribeToAlerts does.
SubmitFailStep_Wrap(error) ==
  [next |-> "threw", write |-> FALSE, token |-> Undefined,
   err |-> ClientError(IF Truthy(error.detail) THEN error.detail ELSE "Login failed")]

\* A catch that also forgets the session before it rethrows.
SubmitFailStep_ClearToken(error) ==
  [next |-> "threw", write |-> TRUE, token |-> Null, err |-> error]

\* Lines 145-151: the submission failed; the error is logged and rethrown.
SubmitFailStep(error) ==
  [next |-> "threw", write |-> FALSE, token |-> Undefined, err |-> error]

\* InitialFailStep that sends the first request again.
InitialFailStep_Retry(error) ==
  [next |-> "awaitInitial", resend |-> TRUE, write |-> FALSE, token |-> Undefined,
   err |-> NoError]

\* Line 63, rejected: nothing catches the error and nothing is sent again,
\* the call rejects with it.
InitialFailStep(error) ==
  [next |-> "threw", resend |-> FALSE, write |-> FALSE, token |-> Undefined, err |-> error]

\* Line 63, first half: the call begins and sends the empty request.
LoginStart(c) ==
  /\ LowestIdle(login, c)
  /\ InFlight < MaxInFlight
  /\ LET call == [login[c] EXCEPT !.pc = "awaitInitial", !.nInitial = @ + 1] IN
     /\ login' = [login EXCEPT ![c] = call]
     /\ last' = [Step("LoginStart", "login", c, call) EXCEPT
                   !.request = Request("POST", "/auth/altcha/", [empty |-> TRUE])]
  /\ UNCHANGED <<csrfToken, fetch, alert, feed, home, ui, server, notif, map>>

\* The call's record after a step with effect eff.
LoginAfter(call, eff) ==
  [call EXCEPT !.pc = eff.next,
               !.writes = @ + (IF eff.write THEN 1 ELSE 0),
               !.err = eff.err]

\* Lines 63-112: the first request resolved with resp.
LoginInitialResponse(c, resp) ==
  /\ login[c].pc = "awaitInitial"
  /\ LET eff  == InitialStep(resp)
         call == [LoginAfter(login[c], eff) EXCEPT
                    !.challengeData = eff.challengeData,
                    !.nSolve = @ + (IF eff.next = "solving" THEN 1 ELSE 0)]
     IN
     /\ csrfToken' = IF eff.write THEN eff.token ELSE csrfToken
     /\ login' = [login EXCEPT ![c] = IF Finished(call) THEN LoginIdle ELSE call]
     /\ last' = [Step("LoginInitialResponse", "login", c, call) EXCEPT !.resp = resp]
  /\ UNCHANGED <<fetch, alert, feed, home, ui, server, notif, map>>

\* Line 63: the first request rejected with error.
LoginInitialFail(c, error) ==
  /\ login[c].pc = "awaitInitial"
  /\ LET eff  == InitialFailStep(error)
         call == IF eff.resend
                 THEN [login[c] EXCEPT !.nInitial = @ + 1]
                 ELSE LoginAfter(login[c], eff)
     IN
     /\ csrfToken' = IF eff.write THEN eff.token ELSE csrfToken
     /\ login' = [login EXCEPT ![c] = IF Finished(call) THEN LoginIdle ELSE call]
     /\ last' = [Step("LoginInitialFail", "login", c, call) EXCEPT
                   !.error = error,
                   !.request = IF eff.resend
                               THEN Request("POST", "/auth/altcha/", [empty |-> TRUE])
                               ELSE NoRequest]
  /\ UNCHANGED <<fetch, alert, feed, home, ui, server, notif, map>>

\* Lines 112-135: the solver's promise resolved with solution; with a
\* solution the call builds the submission and sends it.
LoginSolved(c, solution) ==
  /\ login[c].pc = "solving"
  /\ LET eff  == SolveStep(solution)
         call == [LoginAfter(login[c], eff) EXCEPT
                    !.solution = solution,
                    !.nSubmit = @ + (IF eff.next = "awaitSubmit" THEN 1 ELSE 0)]
     IN
     /\ csrfToken' = IF eff.write THEN eff.token ELSE csrfToken
     /\ login' = [login EXCEPT ![c] = IF Finished(call) THEN LoginIdle ELSE call]
     /\ last' = [Step("LoginSolved", "login", c, call) EXCEPT
                   !.solution = solution,
                   !.request = IF eff.next = "awaitSubmit"
                               THEN Request("POST", "/auth/altcha/",
                                      SubmissionData(login[c].challengeData, solution))
                               ELSE NoRequest]
  /\ UNCHANGED <<fetch, alert, feed, home, ui, server, notif, map>>

\* Lines 135-144: the submission resolved with a body holding tok.
LoginSubmitOk(c, tok) ==
  /\ login[c].pc = "awaitSubmit"
  /\ LET eff  == SubmitOkStep(Body(tok, NoChallenge))
         call == LoginAfter(login[c], eff)
     IN
     /\ csrfToken' = IF eff.write THEN eff.token ELSE csrfToken
     /\ login' = [login EXCEPT ![c] = IF Finished(call) THEN LoginIdle ELSE call]
     /\ last' = [Step("LoginSubmitOk", "login", c, call) EXCEPT !.tok = tok]
  /\ UNCHANGED <<fetch, alert, feed, home, ui, server, notif, map>>

\* Lines 145-151: the submission rejected with error.
LoginSubmitFail(c, error) ==
  /\ login[c].pc = "awaitSubmit"
  /\ LET eff  == SubmitFailStep(error)
         call == LoginAfter(login[c], eff)
     IN
     /\ csrfToken' = IF eff.write THEN eff.token ELSE csrfToken
     /\ login' = [login EXCEPT ![c] = IF Finished(call) THEN LoginIdle ELSE call]
     /\ last' = [Step("LoginSubmitFail", "login", c, call) EXCEPT !.error = error]
  /\ UNCHANGED <<fetch, alert, feed, home, ui, server, notif, map>>

-----------------------------------------------------------------------------
(* getReports()                                                            *)

\* Decoded msgpack values: a bare array of reports, or an envelope object
\* with or without a results field.
ArrayData(list)    == [shape |-> "array", hasResults |-> FALSE, list |-> list]
EnvelopeData(list) == [shape |-> "object", hasResults |-> TRUE, list |-> list]
BareEnvelope       == [shape |-> "object", hasResults |-> FALSE, list |-> <<>>]
NoData             == [shape |-> "none", hasResults |-> FALSE, list |-> <<>>]

\* The bytes of a response: the msgpack encoding of a value, or bytes that
\* are no msgpack value at all.
MsgPack(v)   == [valid |-> TRUE, of |-> v]
BadMsgPack   == [valid |-> FALSE, of |-> NoData]

DecodeError ==
  [name |-> "RangeError", message |-> "Insufficient data", status |-> 0, detail |-> Undefined]

\* decode(new Uint8Array(response.data)): the value, or a thrown error.
Decode(bytes) ==
  IF bytes.valid THEN [ok |-> TRUE, value |-> bytes.of, err |-> NoError]
  ELSE [ok |-> FALSE, value |-> NoData, err |-> DecodeError]

ApiReportBytes == {MsgPack(ArrayData(<<>>)), MsgPack(BareEnvelope), BadMsgPack}

FetchIdle == [pc |-> "idle", tokenAtCall |-> Null, data |-> NoData, err |-> NoError]

\* The query and headers getReports passes to api.get.
ReportsQuery ==
  [archived |-> "False", incident_time |-> "last 24 hours", accept |-> "application/msgpack",
   responseType |-> "arraybuffer"]

\* A getReports that refuses to run without a session.
GetReportsGuard_RequireSession(tok) ==
  IF Truthy(tok) THEN [send |-> TRUE, err |-> NoError]
  ELSE [send |-> FALSE, err |-> ClientError("Unauthenticated")]

\* What getReports does before it sends: lines 155-158 compute the time
\* window and nothing else, so the request is always sent.
GetReportsGuard(tok) == [send |-> TRUE, err |-> NoError]

\* Lines 154-170: the call begins and sends the GET.
GetReportsStart(f) ==
  /\ LowestIdle(fetch, f)
  /\ InFlight < MaxInFlight
  /\ LET g    == GetReportsGuard(csrfToken)
         call == [fetch[f] EXCEPT !.pc = IF g.send THEN "await" ELSE "threw",
                                  !.tokenAtCall = csrfToken, !.err = g.err]
     IN
     /\ fetch' = [fetch EXCEPT ![f] = IF Finished(call) THEN FetchIdle ELSE call]
     /\ last' = [Step("GetReportsStart", "getReports", f, call) EXCEPT
                   !.request = IF g.send
                               THEN Request("GET", "/api/reports/", ReportsQuery)
                               ELSE NoRequest]
  /\ UNCHANGED <<csrfToken, login, alert, feed, home, ui, server, notif, map>>

\* Lines 160-172: the GET resolved; the body is decoded and returned.
GetReportsResponse(f, bytes) ==
  /\ fetch[f].pc = "await"
  /\ LET d    == Decode(bytes)
         call == [fetch[f] EXCEPT !.pc = IF d.ok THEN "returned" ELSE "threw",
                                  !.data = d.value, !.err = d.err]
     IN
     /\ fetch' = [fetch EXCEPT ![f] = FetchIdle]
     /\ last' = Step("GetReportsResponse", "getReports", f, call)
  /\ UNCHANGED <<csrfToken, login, alert, feed, home, ui, server, notif, map>>

\* Line 160: the GET rejected; nothing catches the error.
GetReportsFail(f, error) ==
  /\ fetch[f].pc = "await"
  /\ LET call == [fetch[f] EXCEPT !.pc = "threw", !.err = error] IN
     /\ fetch' = [fetch EXCEPT ![f] = FetchIdle]
     /\ last' = [Step("GetReportsFail", "getReports", f, call) EXCEPT !.error = error]
  /\ UNCHANGED <<csrfToken, login, alert, feed, home, ui, server, notif, map>>

-----------------------------------------------------------------------------
(* subscribeToAlerts() and unsubscribeFromAlerts()                         *)

\* subscription.toJSON()
WebSubscription ==
  [endpoint |-> "https://push.example/ep1", expirationTime |-> Null,
   keys |-> [p256dh |-> "p1", auth |-> "a1"]]
DummySubscription ==
  [endpoint |-> "dummy://device/d1", expirationTime |-> Null,
   keys |-> [p256dh |-> "dummy-p256dh-key", auth |-> "dummy-auth-key"]]
NoSubscription ==
  [endpoint |-> Undefined, expirationTime |-> Null,
   keys |-> [p256dh |-> Undefined, auth |-> Undefined]]

\* Home.tsx:231-246: the subscription Home builds around an FCM token.
FcmSubscription ==
  [endpoint |-> "fcm://fcmtok1", expirationTime |-> Null,
   keys |-> [p256dh |-> "fcm-native", auth |-> "fcm-native"]]

Subscriptions == {WebSubscription, DummySubscription}

\* [latitude, longitude] pairs and radii in metres a caller may pass.
Centers == { <<41, -87>>, <<34, -118>> }
Radii   == { 8046, 1609 }

\* push_subscription of both payloads.
PushSubscriptionJson(sub) ==
  [endpoint |-> sub.endpoint,
   expirationTime |-> IF Truthy(sub.expirationTime) THEN sub.expirationTime ELSE Null,
   keys |-> [p256dh |-> sub.keys.p256dh, auth |-> sub.keys.auth]]

\* The payload of subscribeToAlerts: one alert, GeoJSON [longitude, latitude].
SubscribePayload(alertId, sub, center, radiusMeters) ==
  [push_subscription |-> PushSubscriptionJson(sub),
   alerts |-> << [id |-> alertId, radius |-> radiusMeters,
                  location |-> [type |-> "Point", coordinates |-> <<center[2], center[1]>>],
                  filter_fields |-> [confirmed_only |-> FALSE,
                                     categories |-> <<0, 1, 2, 3, 4>>]] >>]

\* An unsubscribe payload that sends the alert back instead of no alert.
UnsubscribePayload_KeepAlerts(sub) ==
  [push_subscription |-> PushSubscriptionJson(sub),
   alerts |-> << [id |-> "uuid", radius |-> 8046,
                  location |-> [type |-> "Point", coordinates |-> <<-87, 41>>],
                  filter_fields |-> [confirmed_only |-> FALSE,
                                     categories |-> <<0, 1, 2, 3, 4>>]] >>]

\* The payload of unsubscribeFromAlerts: no alerts.
UnsubscribePayload(sub) ==
  [push_subscription |-> PushSubscriptionJson(sub), alerts |-> <<>>]

\* The error both calls throw in place of the one they caught.
WrapError(error, fallback) ==
  IF error.name = "AxiosError"
  THEN ClientError(IF Truthy(error.detail) THEN error.detail ELSE fallback)
  ELSE ClientError(fallback)

\* nPost counts the requests the call has sent.
AlertIdle == [op |-> "none", pc |-> "idle", err |-> NoError, nPost |-> 0]

\* part_004:244-296: the call builds its payload and posts it.  The alert id
\* is a fresh UUID, written "uuid" here.
SubscribeStart(a, sub, center, radiusMeters) ==
  /\ LowestIdle(alert, a)
  /\ InFlight < MaxInFlight
  /\ LET call == [alert[a] EXCEPT !.op = "subscribe", !.pc = "await", !.nPost = @ + 1] IN
     /\ alert' = [alert EXCEPT ![a] = call]
     /\ last' = [Step("SubscribeStart", "alert", a, call) EXCEPT
                   !.request = Request("POST", "/api/push-notifications-write/",
                                       SubscribePayload("uuid", sub, center, radiusMeters)),
                   !.args = [subscription |-> sub, found |-> Undefined, center |-> center,
                             radiusMeters |-> radiusMeters]]
  /\ UNCHANGED <<csrfToken, login, fetch, feed, home, ui, server, notif, map>>

\* part_004:315-357: the call looks for a subscription when it was given
\* none (found is what the service worker's push manager holds, NoSubscription
\* also when the lookup throws or there is no service worker), returns
\* without a request when there is none, else posts the empty alert list.
UnsubscribeStart(a, given, found) ==
  /\ LowestIdle(alert, a)
  /\ InFlight < MaxInFlight
  /\ LET sub  == IF given # NoSubscription THEN given ELSE found
         call == [alert[a] EXCEPT !.op = "unsubscribe",
                                  !.pc = IF sub = NoSubscription THEN "returned" ELSE "await",
                                  !.nPost = IF sub = NoSubscription THEN @ ELSE @ + 1]
     IN
     /\ alert' = [alert EXCEPT ![a] = IF Finished(call) THEN AlertIdle ELSE call]
     /\ last' = [Step("UnsubscribeStart", "alert", a, call) EXCEPT
                   !.request = IF sub = NoSubscription
                               THEN NoRequest
                               ELSE Request("POST", "/api/push-notifications-write/",
                                            UnsubscribePayload(sub)),
                   !.args = [@ EXCEPT !.subscription = given, !.found = found]]
  /\ UNCHANGED <<csrfToken, login, fetch, feed, home, ui, server, notif, map>>

\* The post resolved: the call returns response.data.
AlertResponse(a) ==
  /\ alert[a].pc = "await"
  /\ LET call == [alert[a] EXCEPT !.pc = "returned"] IN
     /\ alert' = [alert EXCEPT ![a] = AlertIdle]
     /\ last' = Step("AlertResponse", "alert", a, call)
  /\ UNCHANGED <<csrfToken, login, fetch, feed, home, ui, server, notif, map>>

\* The post rejected: the call throws a new Error.
AlertFail(a, error) ==
  /\ alert[a].pc = "await"
  /\ LET call == [alert[a] EXCEPT
                    !.pc = "threw",
                    !.err = WrapError(error, IF alert[a].op = "subscribe"
                                             THEN "Failed to subscribe to alerts"
                                             ELSE "Failed to unsubscribe from alerts")]
     IN
     /\ alert' = [alert EXCEPT ![a] = AlertIdle]
     /\ last' = [Step("AlertFail", "alert", a, call) EXCEPT !.error = error]
  /\ UNCHANGED <<csrfToken, login, fetch, feed, home, ui, server, notif, map>>

-----------------------------------------------------------------------------
(* Strings.  A string is a sequence of characters; Char(s, i) is its i-th  *)
(* character as a string of length one.                                    *)

Char(s, i) == SubSeq(s, i, i)

Upper == "ABCDEFGHIJKLMNOPQRSTUVWXYZ"
Lower == "abcdefghijklmnopqrstuvwxyz"
Digits == "0123456789"

\* Whether the one-character string ch occurs in the string set.
OneOf(ch, set) == \E k \in 1..Len(set) : Char(set, k) = ch

LowerChar(ch) ==
  IF \E k \in 1..Len(Upper) : Char(Upper, k) = ch
  THEN Char(Lower, CHOOSE k \in 1..Len(Upper) : Char(Upper, k) = ch)
  ELSE ch

\* String.prototype.toLowerCase
RECURSIVE ToLowerCase(_)
ToLowerCase(s) ==
  IF Len(s) = 0 THEN "" ELSE LowerChar(Char(s, 1)) \o ToLowerCase(SubSeq(s, 2, Len(s)))

\* String.prototype.includes
Includes(s, sub) ==
  \E k \in 1..(Len(s) - Len(sub) + 1) : SubSeq(s, k, k + Len(sub) - 1) = sub

\* String.prototype.startsWith
StartsWith(s, prefix) == Len(prefix) <= Len(s) /\ SubSeq(s, 1, Len(prefix)) = prefix

\* The number of leading characters of s that occur in set.
RECURSIVE Span(_, _)
Span(s, set) ==
  IF Len(s) > 0 /\ OneOf(Char(s, 1), set) THEN 1 + Span(SubSeq(s, 2, Len(s)), set) ELSE 0

Drop(s, n) == SubSeq(s, n + 1, Len(s))

\* parseFloat: leading white space (blanks, here) is skipped, then the longest prefix that
\* is a decimal literal (sign, digits, point, digits, exponent) or a signed
\* "Infinity" is the number; without one the result is NaN.  The number is
\* kept as the text of that prefix.
ParseFloat(str) ==
  LET s     == Drop(str, Span(str, " "))
      sign  == IF Len(s) > 0 /\ OneOf(Char(s, 1), "+-") THEN 1 ELSE 0
      body  == Drop(s, sign)
      int   == Span(body, Digits)
      point == IF Len(body) > int /\ Char(body, int + 1) = "." THEN 1 ELSE 0
      frac  == IF point = 1 THEN Span(Drop(body, int + 1), Digits) ELSE 0
      mant  == IF int + frac = 0 THEN 0 ELSE int + point + frac
      rest  == Drop(body, mant)
      esign == IF Len(rest) > 1 /\ OneOf(Char(rest, 2), "+-") THEN 1 ELSE 0
      edig  == IF Len(rest) > 0 /\ OneOf(Char(rest, 1), "eE")
               THEN Span(Drop(rest, 1 + esign), Digits) ELSE 0
      exp   == IF mant > 0 /\ edig > 0 THEN 1 + esign + edig ELSE 0
  IN  IF StartsWith(body, "Infinity")
      THEN [nan |-> FALSE, text |-> SubSeq(s, 1, sign + 8)]
      ELSE IF mant = 0
      THEN [nan |-> TRUE, text |-> "NaN"]
      ELSE [nan |-> FALSE, text |-> SubSeq(s, 1, sign + mant + exp)]

\* str.split(',')[0]
FirstOfCommaList(str) ==
  IF Includes(str, ",")
  THEN SubSeq(str, 1, (CHOOSE k \in 1..Len(str) :
                          Char(str, k) = "," /\ \A j \in 1..(k - 1) : Char(str, j) # ",") - 1)
  ELSE str

-----------------------------------------------------------------------------
(* getStopIceReports(): the secondary feed.                                *)

MaxDoc == 3     \* <map_data> elements in one document

\* A <map_data> element, as getId reads it: the text of the first child with
\* each tag, the empty string when there is none.
MapData(id, lat, long, thispriority, media) ==
  [id |-> id, lat |-> lat, long |-> long, thispriority |-> thispriority,
   comments |-> "seen", location |-> "5th and Main", timestamp |-> "2026-01-01 10:00",
   media |-> media]

Priorities ==
  { "URGENT - needs backup", "possible sighting", "unconfirmed tip", "routine patrol",
    "CONFIRMED raid", "Unconfirmed Sighting", "" }

\* Elements with coordinates that parse, one per priority, and elements
\* whose latitude or longitude is not a number, is empty, or only starts
\* with one.
MapDataElements ==
  { MapData("s1", "41.8", "-87.6", p, "") : p \in Priorities }
    \cup { MapData("s2", "abc", "-87.6", "routine patrol", "a.jpg"),
           MapData("s3", "41.8", "", "possible sighting", "a.jpg,b.jpg"),
           MapData("", " 12.5xyz", "7e1", "routine patrol", "") }

RECURSIVE SeqsUpTo(_, _)
SeqsUpTo(S, n) ==
  IF n = 0 THEN {<<>>}
  ELSE LET shorter == SeqsUpTo(S, n - 1) IN
       shorter \cup { Append(q, x) : q \in {r \in shorter : Len(r) = n - 1}, x \in S }

Documents == SeqsUpTo(MapDataElements, MaxDoc)

\* A mapping that looks for "unconfirmed" before it looks for "confirmed".
CategoryOf_UnconfirmedFirst(thispriority) ==
  LET priority == ToLowerCase(thispriority) IN
  IF Includes(priority, "unconfirmed") THEN 1
  ELSE IF Includes(priority, "urgent") \/ Includes(priority, "confirmed") THEN 3
  ELSE IF Includes(priority, "sighting") THEN 2
  ELSE 0

\* Lines 203-211: the category of a priority text.
CategoryOf(thispriority) ==
  LET priority == ToLowerCase(thispriority) IN
  IF Includes(priority, "urgent") \/ Includes(priority, "confirmed") THEN 3
  ELSE IF Includes(priority, "sighting") THEN 2
  ELSE IF Includes(priority, "unconfirmed") THEN 1
  ELSE 0

\* Lines 213-224: the report built from an element with coordinates lat, lng.
StopIceReport(element, lat, lng) ==
  [id |-> [type |-> "string", value |-> element.id],
   latitude |-> lat.text,
   longitude |-> lng.text,
   report_type |-> element.thispriority,
   description |-> element.comments,
   location_description |-> element.location,
   incident_time |-> element.timestamp,
   category_enum |-> CategoryOf(element.thispriority),
   small_thumbnail |-> IF FirstOfCommaList(element.media) = "" THEN Undefined
                       ELSE FirstOfCommaList(element.media),
   source |-> "stopice.net"]

\* A loop turn that tests the latitude only.
ParseElement_LatOnly(reports, element) ==
  LET lat == ParseFloat(element.lat)
      lng == ParseFloat(element.long)
  IN  IF lat.nan THEN reports
      ELSE Append(reports, StopIceReport(element, lat, lng))

\* Lines 194-226: one turn of the loop: the reports after element is read.
ParseElement(reports, element) ==
  LET lat == ParseFloat(element.lat)
      lng == ParseFloat(element.long)
  IN  IF lat.nan \/ lng.nan THEN reports
      ELSE Append(reports, StopIceReport(element, lat, lng))

FeedIdle == [pc |-> "idle", doc |-> <<>>, i |-> 0, reports |-> <<>>, result |-> <<>>]

\* Lines 176-184: the call begins; the GET goes out through axios itself,
\* not through `api`.
FeedStart ==
  /\ feed.pc = "idle"
  /\ feed' = [feed EXCEPT !.pc = "await"]
  /\ UNCHANGED <<csrfToken, login, fetch, alert, last, home, ui, server, notif, map>>

\* Lines 186-191: the GET resolved with a document; the elements are found
\* and the loop begins.
FeedResponse(doc) ==
  /\ feed.pc = "await"
  /\ feed' = [feed EXCEPT !.pc = "loop", !.doc = doc, !.i = 0, !.reports = <<>>]
  /\ UNCHANGED <<csrfToken, login, fetch, alert, last, home, ui, server, notif, map>>

\* Lines 193-227: one turn of the loop.
FeedElement ==
  /\ feed.pc = "loop"
  /\ feed.i < Len(feed.doc)
  /\ feed' = [feed EXCEPT !.i = @ + 1,
                          !.reports = ParseElement(feed.reports, feed.doc[feed.i + 1])]
  /\ UNCHANGED <<csrfToken, login, fetch, alert, last, home, ui, server, notif, map>>

\* Lines 229-230: the loop is over; the reports are returned.
FeedReturn ==
  /\ feed.pc = "loop"
  /\ feed.i = Len(feed.doc)
  /\ feed' = [feed EXCEPT !.pc = "returned", !.result = feed.reports]
  /\ UNCHANGED <<csrfToken, login, fetch, alert, last, home, ui, server, notif, map>>

\* Lines 232-235: the GET rejected (no network, no such host, a timeout, a
\* status outside 2xx); the error is logged and an empty list returned.
FeedFail(error) ==
  /\ feed.pc = "await"
  /\ feed' = [feed EXCEPT !.pc = "returned", !.result = <<>>]
  /\ UNCHANGED <<csrfToken, login, fetch, alert, last, home, ui, server, notif, map>>

-----------------------------------------------------------------------------
(* Home.tsx: the initialization sequence.                                  *)

MaxPrimary == 2     \* reports in a response of the primary backend
MaxSecondary == 2   \* reports getStopIceReports returns
MaxMounts == 2      \* times the initialization effect runs

\* A report id: a number or a string (or nothing), compared as Set.has
\* compares: a number never equals a string.
NumberId(v) == [type |-> "number", value |-> v]
StringId(v) == [type |-> "string", value |-> v]
NoId        == [type |-> "undefined", value |-> ""]

\* A report of the primary backend.
PrimaryReport(id, description) ==
  [id |-> id, category_enum |-> 4, description |-> description, source |-> Undefined]

\* Reports the primary backend may send: two with the same string id, one
\* with a numeric id, one without an id.
PrimaryReports ==
  { PrimaryReport(StringId("s1"), "a"), PrimaryReport(StringId("s1"), "b"),
    PrimaryReport(NumberId("7"), "c"), PrimaryReport(NoId, "d") }

\* Reports the secondary feed may yield, as the parser builds them: one whose
\* id a primary report has, two with the same id, one whose id is the text
\* of a primary report's number, one with no id text.
SecondaryElements ==
  { MapData("s1", "41.8", "-87.6", "possible sighting", ""),
    MapData("s2", "41.8", "-87.6", "routine patrol", ""),
    MapData("s2", "34.1", "-118.2", "URGENT - needs backup", "a.jpg"),
    MapData("7", "41.8", "-87.6", "routine patrol", ""),
    MapData("", "41.8", "-87.6", "routine patrol", ""),
    MapData("s4", "Infinity", "-87.6", "routine patrol", "") }

\* Lines 191-227: the whole loop over the elements of a document.
RECURSIVE ParseDocument(_)
ParseDocument(doc) ==
  IF doc = <<>> THEN <<>>
  ELSE ParseElement(ParseDocument(SubSeq(doc, 1, Len(doc) - 1)), doc[Len(doc)])

\* What the GET of the secondary feed comes to: a document, or an error
\* (the request rejected, or something in the try block threw).
FeedOk(doc)       == [ok |-> TRUE, doc |-> doc, error |-> NoError]
FeedFailed(error) == [ok |-> FALSE, doc |-> <<>>, error |-> error]

ReferenceError ==
  [name |-> "ReferenceError", message |-> "DOMParser is not defined", status |-> 0,
   detail |-> Undefined]
TimeoutError ==
  [name |-> "AxiosError", message |-> "timeout of 60000ms exceeded", status |-> 0,
   detail |-> Undefined]

FeedErrors == AxiosErrors \cup {TimeoutError, ReferenceError}

\* A getStopIceReports whose catch throws the error on.
GetStopIceReports_Rethrow(outcome) ==
  IF outcome.ok
  THEN [threw |-> FALSE, reports |-> ParseDocument(outcome.doc), err |-> NoError]
  ELSE [threw |-> TRUE, reports |-> <<>>, err |-> outcome.error]

\* Lines 175-236: getStopIceReports() as its caller sees it: the reports of
\* the document, or the empty list of the catch.
GetStopIceReports(outcome) ==
  IF outcome.ok
  THEN [threw |-> FALSE, reports |-> ParseDocument(outcome.doc), err |-> NoError]
  ELSE [threw |-> FALSE, reports |-> <<>>, err |-> NoError]

PrimaryLists       == SeqsUpTo(PrimaryReports, MaxPrimary)
SecondaryDocuments == SeqsUpTo(SecondaryElements, MaxSecondary)
SecondaryLists     == { ParseDocument(doc) : doc \in SecondaryDocuments }
SecondaryOutcomes  ==
  { FeedOk(doc) : doc \in SecondaryDocuments } \cup { FeedFailed(e) : e \in FeedErrors }

\* Each outcome with what getStopIceReports() makes of it.
SecondaryCalls ==
  { [outcome |-> o, got |-> GetStopIceReports(o)] : o \in SecondaryOutcomes }

\* What decode may return to init: an array, an envelope with or without
\* results, or null.
PrimaryData ==
  { ArrayData(l) : l \in PrimaryLists } \cup { EnvelopeData(l) : l \in PrimaryLists }
    \cup { BareEnvelope, NoData }

\* What login() and getReports() may reject with.
LoginErrors == AxiosErrors \cup {ProtocolError, UnsolvedError, SyntaxError}
FetchErrors == AxiosErrors \cup {DecodeError}

TypeError ==
  [name |-> "TypeError", message |-> "Cannot read properties of null", status |-> 0,
   detail |-> Undefined]
QuotaError ==
  [name |-> "QuotaExceededError", message |-> "The quota has been exceeded", status |-> 0,
   detail |-> Undefined]

\* localStorage['iceout_reports']: nothing, the JSON text of a list, or text
\* that JSON.parse rejects.
\* JSON.stringify writes a number that is not finite as null; a field that
\* is undefined is left out, which reads back as undefined.
JsonNumber(text) ==
  IF text \in {"NaN", "Infinity", "+Infinity", "-Infinity"} THEN Null ELSE text
JsonReport(r) ==
  IF "latitude" \in DOMAIN r
  THEN [r EXCEPT !.latitude = JsonNumber(@), !.longitude = JsonNumber(@)]
  ELSE r
JsonStringify(list) == [kind |-> "json", of |-> [k \in 1..Len(list) |-> JsonReport(list[k])]]
NoItem      == [kind |-> "null", of |-> <<>>]
CorruptItem == [kind |-> "corrupt", of |-> <<>>]

\* Lines 34-41: getCachedReports.
GetCachedReports(item) == IF item.kind = "json" THEN item.of ELSE <<>>

\* The status line: a text and the number inside it, if any.
Status(text, n) == [text |-> text, n |-> n]

\* A list taken from the results field whatever the response is.
PointsOf_EnvelopeOnly(data) ==
  IF data.shape \in {"array", "object"}
  THEN [ok |-> TRUE, points |-> IF data.hasResults THEN data.list ELSE <<>>]
  ELSE [ok |-> FALSE, points |-> <<>>]

\* Line 115: the report list taken from the decoded response.
PointsOf(data) ==
  IF data.shape = "array" THEN [ok |-> TRUE, points |-> data.list]
  ELSE IF data.shape = "object"
  THEN [ok |-> TRUE, points |-> IF data.hasResults THEN data.list ELSE <<>>]
  ELSE [ok |-> FALSE, points |-> <<>>]

\* Line 142: stopIceReports.filter(r => !existingIds.has(r.id)), element by
\* element.
RECURSIVE FilterNew(_, _)
FilterNew(stopIceReports, existingIds) ==
  IF stopIceReports = <<>> THEN <<>>
  ELSE LET r    == Head(stopIceReports)
           rest == FilterNew(Tail(stopIceReports), existingIds)
       IN  IF r.id \in existingIds THEN rest ELSE <<r>> \o rest

\* The reports of list whose id is neither in seen nor on an earlier report
\* of list.
RECURSIVE FilterUnseen(_, _)
FilterUnseen(list, seen) ==
  IF list = <<>> THEN <<>>
  ELSE LET r == Head(list) IN
       IF r.id \in seen THEN FilterUnseen(Tail(list), seen)
       ELSE <<r>> \o FilterUnseen(Tail(list), seen \cup {r.id})

\* A merge that also drops a secondary report repeating the id of an earlier
\* secondary report.
CombinedReports_SelfDedup(points, stopIceReports) ==
  points \o FilterUnseen(stopIceReports, { points[j].id : j \in 1..Len(points) })

\* A merge that keeps one report per id, whichever list it is in.
CombinedReports_OnePerId(points, stopIceReports) ==
  FilterUnseen(points \o stopIceReports, {})

\* A merge that appends the secondary reports without looking at their ids.
CombinedReports_NoDedup(points, stopIceReports) == points \o stopIceReports

\* Lines 141-144: combinedReports.
CombinedReports(points, stopIceReports) ==
  LET existingIds == { points[j].id : j \in 1..Len(points) }
      newReports  == FilterNew(stopIceReports, existingIds)
  IN  points \o newReports

\* A merge that pushes the new reports onto points itself.
MergeStep_InPlace(points, stopIceReports) ==
  [points |-> CombinedReports(points, stopIceReports), stopIceReports |-> stopIceReports,
   combinedReports |-> CombinedReports(points, stopIceReports)]

\* Lines 141-144 as a step over the two arrays: map, filter and spread build
\* new arrays, so both arrays are after the step what they were before it.
MergeStep(points, stopIceReports) ==
  [points |-> points, stopIceReports |-> stopIceReports,
   combinedReports |-> CombinedReports(points, stopIceReports)]

\* A StopIce step that shows what the feed added in place of the list.
StopIceStep_ShowAdded(points, stopIceReports) ==
  [merge |-> TRUE, after |-> MergeStep(points, stopIceReports),
   shown |-> FilterNew(stopIceReports, { points[j].id : j \in 1..Len(points) })]

\* Lines 140-156: whether the lists are merged (only when the feed gave
\* something), the arrays after it and the list then shown and saved.
StopIceStep(points, stopIceReports) ==
  IF Len(stopIceReports) > 0
  THEN [merge |-> TRUE, after |-> MergeStep(points, stopIceReports),
        shown |-> MergeStep(points, stopIceReports).combinedReports]
  ELSE [merge |-> FALSE,
        after |-> [points |-> points, stopIceReports |-> stopIceReports,
                   combinedReports |-> <<>>],
        shown |-> <<>>]

HomeIdle ==
  [pc |-> "idle", hasInitialized |-> FALSE, mounts |-> 0, nLogin |-> 0, nFetch |-> 0,
   reports |-> <<>>, status |-> Status("Initializing...", 0), isLoading |-> TRUE,
   item |-> NoItem, points |-> <<>>, stopIceReports |-> <<>>, stopIce |-> "none",
   timers |-> {}, data |-> NoData, err |-> NoError, fetched |-> <<>>,
   outcome |-> FeedOk(<<>>), received |-> <<>>, threw |-> FALSE, nStopIce |-> 0,
   loginOk |-> FALSE, fetchOk |-> FALSE]

\* The component as it is first rendered over a given localStorage.
HomeInitial(item) ==
  [HomeIdle EXCEPT !.item = item, !.reports = GetCachedReports(item)]

InitialItems ==
  { NoItem, CorruptItem, JsonStringify(<<>>),
    JsonStringify(<<PrimaryReport(StringId("s9"), "old")>>) }

\* An effect whose init() has no hasInitialized test and starts over.
HomeMount_NoGuard ==
  /\ home.mounts < MaxMounts
  /\ home.pc \in {"idle", "login"}
  /\ home' = [home EXCEPT !.mounts = @ + 1, !.hasInitialized = TRUE,
                          !.nLogin = @ + 1, !.pc = "login"]
  /\ UNCHANGED <<csrfToken, login, fetch, alert, last, feed, ui, server, notif, map>>

\* Lines 83-105: the effect runs init(), which stops at once when it has
\* run before, else shows the cached reports and calls login().
HomeMount ==
  /\ home.mounts < MaxMounts
  /\ IF home.hasInitialized
     THEN home' = [home EXCEPT !.mounts = @ + 1]
     ELSE LET cachedReports == GetCachedReports(home.item) IN
          home' = [home EXCEPT
            !.mounts = @ + 1,
            !.hasInitialized = TRUE,
            !.reports = IF Len(cachedReports) > 0 THEN cachedReports ELSE @,
            !.status = IF Len(cachedReports) > 0
                       THEN Status("Loaded cached reports", Len(cachedReports))
                       ELSE Status("Solving Crypto Challenge...", 0),
            !.isLoading = IF Len(cachedReports) > 0 THEN @ ELSE TRUE,
            !.timers = IF Len(cachedReports) > 0 THEN @ \cup {"cached100"} ELSE @,
            !.nLogin = @ + 1,
            !.pc = "login"]
  /\ UNCHANGED <<csrfToken, login, fetch, alert, last, feed, ui, server, notif, map>>

\* Lines 96-99: the 100 ms timer of the cached path.
HomeCachedTimer ==
  /\ "cached100" \in home.timers
  /\ home' = [home EXCEPT !.timers = @ \ {"cached100"}, !.isLoading = FALSE,
                          !.status = Status("Refreshing...", 0)]
  /\ UNCHANGED <<csrfToken, login, fetch, alert, last, feed, ui, server, notif, map>>

\* A catch that also empties the displayed list.
HomeCatch_DropReports(h, e) ==
  [h EXCEPT !.pc = "failed", !.status = Status("Error: " \o e.message, 0),
            !.isLoading = FALSE, !.err = e, !.reports = <<>>]

\* Lines 162-166: the catch of init().
HomeCatch(h, e) ==
  [h EXCEPT !.pc = "failed", !.status = Status("Error: " \o e.message, 0),
            !.isLoading = FALSE, !.err = e]

\* Lines 105-108: login() resolved; getReports() is called.
HomeLoginResolved ==
  /\ home.pc = "login"
  /\ home' = [home EXCEPT !.pc = "fetch", !.status = Status("Fetching Reports...", 0),
                          !.nFetch = @ + 1, !.loginOk = TRUE]
  /\ UNCHANGED <<csrfToken, login, fetch, alert, last, feed, ui, server, notif, map>>

\* A rejected login() that is logged and followed by the fetch all the same.
HomeLoginRejected_Proceed(e) ==
  /\ home.pc = "login"
  /\ home' = [home EXCEPT !.pc = "fetch", !.status = Status("Fetching Reports...", 0),
                          !.nFetch = @ + 1, !.err = e]
  /\ UNCHANGED <<csrfToken, login, fetch, alert, last, feed, ui, server, notif, map>>

\* Line 105: login() rejected.
HomeLoginRejected(e) ==
  /\ home.pc = "login"
  /\ home' = HomeCatch(home, e)
  /\ UNCHANGED <<csrfToken, login, fetch, alert, last, feed, ui, server, notif, map>>

\* Lines 108-160: getReports() resolved with data; the list is taken from
\* it, saved (stored says whether localStorage took it), shown, and the two
\* timers are set.  data and fetched keep what the step was given and took
\* from it.
HomeFetchResolved(data, stored) ==
  /\ home.pc = "fetch"
  /\ LET got  == PointsOf(data)
         seen == [home EXCEPT !.data = data, !.fetchOk = TRUE]
     IN
     home' = IF ~got.ok THEN HomeCatch(seen, TypeError)
             ELSE IF ~stored THEN HomeCatch([seen EXCEPT !.fetched = got.points], QuotaError)
             ELSE [seen EXCEPT
                     !.pc = "done",
                     !.points = got.points,
                     !.fetched = got.points,
                     !.item = JsonStringify(got.points),
                     !.reports = got.points,
                     !.status = Status("Loaded reports", Len(got.points)),
                     !.isLoading = FALSE,
                     !.timers = @ \cup {"status3000", "stopice1000"},
                     !.stopIce = "waiting"]
  /\ UNCHANGED <<csrfToken, login, fetch, alert, last, feed, ui, server, notif, map>>

\* Line 108: getReports() rejected.
HomeFetchRejected(e) ==
  /\ home.pc = "fetch"
  /\ home' = HomeCatch(home, e)
  /\ UNCHANGED <<csrfToken, login, fetch, alert, last, feed, ui, server, notif, map>>

\* Lines 131 and 153: a 3000 ms timer clears the status.  The first of them
\* is set together with the 1000 ms timer and fires after it.
HomeStatusTimer(t) ==
  /\ t \in home.timers
  /\ t \in {"status3000", "merged3000"}
  /\ t = "status3000" => "stopice1000" \notin home.timers
  /\ home' = [home EXCEPT !.timers = @ \ {t}, !.status = Status("", 0)]
  /\ UNCHANGED <<csrfToken, login, fetch, alert, last, feed, ui, server, notif, map>>

\* Lines 133-138: the 1000 ms timer fires (after the 100 ms one, which was
\* set before it) and calls getStopIceReports().
HomeStopIceTimer ==
  /\ "stopice1000" \in home.timers
  /\ "cached100" \notin home.timers
  /\ home' = [home EXCEPT !.timers = @ \ {"stopice1000"},
                          !.status = Status("Loading additional reports...", 0),
                          !.stopIce = "await", !.nStopIce = @ + 1]
  /\ UNCHANGED <<csrfToken, login, fetch, alert, last, feed, ui, server, notif, map>>

\* Lines 138-159: getStopIceReports() settled (call is the outcome of its
\* GET and what it made of it); a list that is not empty is merged into the
\* primary list, shown and saved (stored says whether localStorage took it);
\* an error, were there one, is logged.  outcome and received keep what the
\* step was given.
HomeStopIceResolved(call, stored) ==
  /\ home.stopIce = "await"
  /\ LET got  == call.got
         eff  == StopIceStep(home.points, got.reports)
         seen == [home EXCEPT !.stopIce = "merged", !.outcome = call.outcome,
                              !.received = got.reports, !.threw = got.threw]
     IN
     home' = IF got.threw THEN seen
             ELSE IF ~eff.merge
             THEN [seen EXCEPT !.points = eff.after.points,
                               !.stopIceReports = eff.after.stopIceReports]
             ELSE IF stored
             THEN [seen EXCEPT
                     !.points = eff.after.points,
                     !.stopIceReports = eff.after.stopIceReports,
                     !.reports = eff.shown,
                     !.item = JsonStringify(eff.shown),
                     !.status = Status("Loaded total reports", Len(eff.shown)),
                     !.timers = @ \cup {"merged3000"}]
             ELSE [seen EXCEPT
                     !.points = eff.after.points,
                     !.stopIceReports = eff.after.stopIceReports,
                     !.reports = eff.shown]
  /\ UNCHANGED <<csrfToken, login, fetch, alert, last, feed, ui, server, notif, map>>

-----------------------------------------------------------------------------
(* Home.tsx: the alert modal, handleSubscribe and handleClearActiveAlert.  *)
(* One run of each of the two async handlers is followed at a time.  The  *)
(* status banner, which these handlers write and which no other code      *)
(* reads, is left to the model of the initialization sequence.            *)

\* Home as first rendered with nothing stored under 'iceout_active_alert'
\* (lines 44-63).  null as the value of alertCenter is written <<>>; null as
\* the value of activeAlert and of the storage key is the alert without a
\* centre, UiIdle.activeAlert.
\* run is the handleSubscribe run: where it waits, the alertCenter and
\* alertRadius its closure holds, its subscription, the backend's answer;
\* clear is the handleClearActiveAlert run.  item is the storage key,
\* endpoint the endpoint of the last subscribeToAlerts that resolved, ev the
\* event handled last when it is one of dismiss, failed (the catch of
\* handleSubscribe), resolved, closed (its timer), cleared.
UiIdle ==
  [platform |-> "web", showModal |-> FALSE, isSelectingLocation |-> FALSE,
   alertCenter |-> <<>>, alertRadius |-> 8046, isSubscribing |-> FALSE,
   activeAlert |-> [center |-> <<>>, radius |-> 0],
   item |-> [center |-> <<>>, radius |-> 0],
   run |-> [pc |-> "idle", center |-> <<>>, radius |-> 0, sub |-> NoSubscription,
            ok |-> FALSE],
   clear |-> [pc |-> "idle", sub |-> NoSubscription, ok |-> FALSE],
   endpoint |-> Undefined, ev |-> "none"]

\* Lines 319-324.
HomeOpenModal ==
  /\ ui' = [ui EXCEPT !.showModal = TRUE, !.alertCenter = <<>>,
                      !.isSelectingLocation = FALSE, !.ev = "other"]
  /\ UNCHANGED <<csrfToken, login, fetch, alert, last, feed, home, server, notif, map>>

\* A dismiss handler that closes the modal whatever the mode.
HomeCloseModal_Always ==
  /\ ui' = [ui EXCEPT !.showModal = FALSE, !.alertCenter = <<>>, !.ev = "dismiss"]
  /\ UNCHANGED <<csrfToken, login, fetch, alert, last, feed, home, server, notif, map>>

\* Lines 326-335: onDidDismiss of the modal, which the modal raises whenever
\* it has closed, by a gesture or because isOpen became false.
HomeCloseModal ==
  /\ ui' = IF ~ui.isSelectingLocation
           THEN [ui EXCEPT !.showModal = FALSE, !.alertCenter = <<>>, !.ev = "dismiss"]
           ELSE [ui EXCEPT !.ev = "dismiss"]
  /\ UNCHANGED <<csrfToken, login, fetch, alert, last, feed, home, server, notif, map>>

\* Lines 337-342: the close button in the modal's toolbar.
HomeExplicitClose ==
  /\ ui.showModal
  /\ ui' = [ui EXCEPT !.showModal = FALSE, !.alertCenter = <<>>,
                      !.isSelectingLocation = FALSE, !.ev = "other"]
  /\ UNCHANGED <<csrfToken, login, fetch, alert, last, feed, home, server, notif, map>>

\* Lines 367-370 (525, 549): the instructions box or 'Change Location'.
HomeStartLocationSelection ==
  /\ ui.showModal
  /\ ui' = [ui EXCEPT !.isSelectingLocation = TRUE, !.showModal = FALSE, !.ev = "other"]
  /\ UNCHANGED <<csrfToken, login, fetch, alert, last, feed, home, server, notif, map>>

\* Lines 372-376: a click on the map while the location picker is mounted.
HomeLocationSelected(center) ==
  /\ ui.isSelectingLocation
  /\ ui' = [ui EXCEPT !.alertCenter = center, !.isSelectingLocation = FALSE,
                      !.showModal = TRUE, !.ev = "other"]
  /\ UNCHANGED <<csrfToken, login, fetch, alert, last, feed, home, server, notif, map>>

\* Lines 378-381 (425): the cross in the selection banner.
HomeCancelLocationSelection ==
  /\ ui.isSelectingLocation
  /\ ui' = [ui EXCEPT !.isSelectingLocation = FALSE, !.showModal = TRUE, !.ev = "other"]
  /\ UNCHANGED <<csrfToken, login, fetch, alert, last, feed, home, server, notif, map>>

\* Line 586: the radius slider in the modal.
HomeSetAlertRadius(radius) ==
  /\ ui.showModal
  /\ ui.alertRadius # radius
  /\ ui' = [ui EXCEPT !.alertRadius = radius, !.ev = "other"]
  /\ UNCHANGED <<csrfToken, login, fetch, alert, last, feed, home, server, notif, map>>

\* Lines 68-74: some promise of the page was rejected and nobody caught it.
HomeUnhandledRejection ==
  /\ ui' = [ui EXCEPT !.isSubscribing = FALSE, !.ev = "other"]
  /\ UNCHANGED <<csrfToken, login, fetch, alert, last, feed, home, server, notif, map>>

\* Lines 172-188 (614-622): 'Start Monitoring', enabled with a centre chosen
\* and no run under way.  A browser without push support is refused at once
\* (the catch, lines 303-316); else the run waits for initialize().
HomeSubscribe(supported) ==
  /\ ui.showModal /\ ui.alertCenter # <<>> /\ ~ui.isSubscribing
  /\ ui.run.pc = "idle"
  /\ ui.platform = "native" => supported
  /\ ui' = IF ~supported
           THEN [ui EXCEPT !.isSubscribing = FALSE, !.ev = "failed"]
           ELSE [ui EXCEPT !.isSubscribing = TRUE,
                           !.run = [pc |-> "initialize", center |-> ui.alertCenter,
                                    radius |-> ui.alertRadius, sub |-> NoSubscription,
                                    ok |-> FALSE],
                           !.ev = "other"]
  /\ UNCHANGED <<csrfToken, login, fetch, alert, last, feed, home, server, notif, map>>

\* Lines 188-252, 303-316: the run goes on when the call it waits for has
\* settled.  ok: the call resolved (requestPermission: with true); sub: the
\* subscription this step gets (pushManager's on the web; on native the
\* dummy one or the one around the FCM token, as getFCMToken() finds none or
\* one).  With a subscription the run posts it (subscribeToAlerts, line
\* 254); a step that fails runs the catch of lines 303-316.
HomeSubscribeAwait(ok, sub) ==
  /\ ui.run.pc \in {"initialize", "permission", "push"}
  /\ ui.run.pc = "initialize" =>
       /\ sub = NoSubscription
       /\ ui.platform = "native" => ok
  /\ ui.run.pc = "permission" =>
       sub \in IF ui.platform = "native" /\ ok THEN {DummySubscription, FcmSubscription}
               ELSE {NoSubscription}
  /\ ui.run.pc = "push" =>
       sub \in IF ok THEN {WebSubscription, NoSubscription} ELSE {NoSubscription}
  /\ LET failed == [ui EXCEPT !.isSubscribing = FALSE, !.run = UiIdle.run, !.ev = "failed"]
     IN
     ui' = CASE ui.run.pc = "initialize" ->
                  IF ok THEN [ui EXCEPT !.run.pc = "permission", !.ev = "other"]
                  ELSE failed
             [] ui.run.pc = "permission" ->
                  IF ~ok THEN failed
                  ELSE IF ui.platform = "web"
                  THEN [ui EXCEPT !.run.pc = "push", !.ev = "other"]
                  ELSE [ui EXCEPT !.run.pc = "post", !.run.sub = sub, !.ev = "other"]
             [] ui.run.pc = "push" ->
                  IF sub = NoSubscription THEN failed
                  ELSE [ui EXCEPT !.run.pc = "post", !.run.sub = sub, !.ev = "other"]
  /\ UNCHANGED <<csrfToken, login, fetch, alert, last, feed, home, server, notif, map>>

\* A run that records the alert whatever the backend answered.
HomeSubscribeSettled_RecordAnyway(stored) ==
  /\ ui.run.pc = "response"
  /\ ui' = [ui EXCEPT
              !.activeAlert = [center |-> ui.run.center, radius |-> ui.run.radius],
              !.item = IF stored THEN [center |-> ui.run.center, radius |-> ui.run.radius]
                       ELSE @,
              !.endpoint = ui.run.sub.endpoint,
              !.run.pc = "closing", !.ev = "resolved"]
  /\ UNCHANGED <<csrfToken, login, fetch, alert, last, feed, home, server, notif, map>>

\* Lines 253-301, 303-316: subscribeToAlerts() settled.  Rejected, the run
\* ends in the catch.  Resolved, the alert the run asked for is recorded
\* (stored: setItem worked) and the timer that closes the modal is set.
HomeSubscribeSettled(stored) ==
  /\ ui.run.pc = "response"
  /\ ~ui.run.ok => stored
  /\ LET alertData == [center |-> ui.run.center, radius |-> ui.run.radius] IN
     ui' = IF ~ui.run.ok
           THEN [ui EXCEPT !.isSubscribing = FALSE, !.run = UiIdle.run, !.ev = "failed"]
           ELSE [ui EXCEPT !.activeAlert = alertData,
                           !.item = IF stored THEN alertData ELSE @,
                           !.endpoint = ui.run.sub.endpoint,
                           !.run.pc = "closing", !.ev = "resolved"]
  /\ UNCHANGED <<csrfToken, login, fetch, alert, last, feed, home, server, notif, map>>

\* A timer that closes the modal and leaves the button disabled.
HomeSubscribeTimer_KeepSubscribing ==
  /\ ui.run.pc = "closing"
  /\ ui' = [ui EXCEPT !.showModal = FALSE, !.alertCenter = <<>>,
                      !.run = UiIdle.run, !.ev = "closed"]
  /\ UNCHANGED <<csrfToken, login, fetch, alert, last, feed, home, server, notif, map>>

\* Lines 285-301: the timer set when the run has succeeded closes the modal
\* and ends the run.
HomeSubscribeTimer ==
  /\ ui.run.pc = "closing"
  /\ ui' = [ui EXCEPT !.showModal = FALSE, !.alertCenter = <<>>, !.isSubscribing = FALSE,
                      !.run = UiIdle.run, !.ev = "closed"]
  /\ UNCHANGED <<csrfToken, login, fetch, alert, last, feed, home, server, notif, map>>

\* Lines 344-349 and part_004:315-357: 'Clear Alert' in the banner of the
\* active alert.  found is the subscription the push manager holds; nothing
\* on native, where none is made.  With none, unsubscribeFromAlerts()
\* posts nothing and returns, and the alert is removed here (lines 351-356).
HomeClearActiveAlert(found) ==
  /\ ui.showModal /\ ui.activeAlert # UiIdle.activeAlert
  /\ ui.clear.pc = "idle"
  /\ ui.platform = "native" => found = NoSubscription
  /\ ui' = IF found = NoSubscription
           THEN [ui EXCEPT !.activeAlert = UiIdle.activeAlert, !.item = UiIdle.activeAlert, !.ev = "cleared"]
           ELSE [ui EXCEPT !.clear = [pc |-> "post", sub |-> found, ok |-> FALSE],
                           !.ev = "other"]
  /\ UNCHANGED <<csrfToken, login, fetch, alert, last, feed, home, server, notif, map>>

\* Lines 351-364: the post of unsubscribeFromAlerts() settled; the alert is
\* removed here whichever way.
HomeClearSettled ==
  /\ ui.clear.pc = "response"
  /\ ui' = [ui EXCEPT !.activeAlert = UiIdle.activeAlert, !.item = UiIdle.activeAlert,
                      !.clear = UiIdle.clear, !.ev = "cleared"]
  /\ UNCHANGED <<csrfToken, login, fetch, alert, last, feed, home, server, notif, map>>

\* The backend takes a post of /api/push-notifications-write/: it replaces
\* the alert list of the endpoint by the one posted (of a list the ids are
\* kept, "uuid" being the id subscribeToAlerts makes up), or refuses and
\* leaves it.  The answer waits in ok for the handler.
ServerWrite(who, accept) ==
  /\ ui[who].pc = "post"
  /\ ui' = [ui EXCEPT ![who].pc = "response", ![who].ok = accept, !.ev = "other"]
  /\ server' = IF ~accept THEN server
               ELSE [server EXCEPT ![ui[who].sub.endpoint] =
                       IF who = "run" THEN <<"uuid">> ELSE <<>>]
  /\ UNCHANGED <<csrfToken, login, fetch, alert, last, feed, home, notif, map>>

-----------------------------------------------------------------------------
(* NotificationService: initialize() and cleanup().                        *)

\* NotificationService as loaded.  platform is what
\* Capacitor.isNativePlatform() says, known here from the first call on;
\* call holds, for each initialize() under way, the await it is at;
\* nRegister counts the platform initializations begun since the last
\* cleanup(): the calls of navigator.serviceWorker.register() on the web,
\* the rounds of addListener() and PushNotifications.register() on native;
\* fcmUnavailable is the storage key 'fcm_unavailable'.
NotifIdle ==
  [platform |-> "unknown", isInitialized |-> FALSE, nRegister |-> 0,
   fcmUnavailable |-> FALSE,
   call |-> [c \in 1..MaxInFlight |-> [pc |-> "idle"]]]

\* NotificationService.ts:8-22, 27-31, 125-138: initialize() is called.  It
\* returns at once when isInitialized is set; on the web it throws when the
\* browser has no service workers or no PushManager (supported), else calls
\* register('/sw.js'); on native it asks for the permission state.
NotifInitialize(c, native, supported) ==
  /\ LowestIdle(notif.call, c)
  /\ notif.platform \in {"unknown", IF native THEN "native" ELSE "web"}
  /\ native => supported
  /\ notif.nRegister <= MaxInFlight
  /\ notif' = [notif EXCEPT
       !.platform = IF native THEN "native" ELSE "web",
       !.nRegister = IF ~notif.isInitialized /\ ~native /\ supported THEN @ + 1 ELSE @,
       !.call[c].pc = IF notif.isInitialized \/ ~supported THEN "idle"
                      ELSE IF native THEN "permissions" ELSE "register"]
  /\ UNCHANGED <<csrfToken, login, fetch, alert, last, feed, home, ui, server, map>>

\* NotificationService.ts:14-24, 31-88, 136-142: the call an initialize()
\* waits for has settled (ok: it resolved; the permission: granted).  On the
\* web a register() that rejects ends initialize() with isInitialized as it
\* was.  On native the listeners are added once the permission is there,
\* then register() is called and the token waited for; every failure is
\* caught (lines 17, 64, 85), noted under 'fcm_unavailable', and the flag is
\* set whatever happened.
NotifSettle(c, ok) ==
  /\ notif.call[c].pc # "idle"
  /\ notif.call[c].pc = "ready" => ok
  /\ notif' =
       CASE notif.call[c].pc = "register" /\ notif.platform = "web" ->
              [notif EXCEPT !.call[c].pc = IF ok THEN "ready" ELSE "idle"]
         [] notif.call[c].pc = "ready" ->
              [notif EXCEPT !.call[c].pc = "idle", !.isInitialized = TRUE]
         [] notif.call[c].pc = "permissions" ->
              IF ok THEN [notif EXCEPT !.call[c].pc = "listeners", !.nRegister = @ + 1]
              ELSE [notif EXCEPT !.call[c].pc = "idle", !.isInitialized = TRUE,
                                 !.fcmUnavailable = TRUE]
         [] notif.call[c].pc = "listeners" ->
              IF ok THEN [notif EXCEPT !.call[c].pc = "register"]
              ELSE [notif EXCEPT !.call[c].pc = "idle", !.isInitialized = TRUE,
                                 !.fcmUnavailable = TRUE]
         [] notif.call[c].pc = "register" /\ notif.platform = "native" ->
              [notif EXCEPT !.call[c].pc = "idle", !.isInitialized = TRUE,
                            !.fcmUnavailable = IF ok THEN @ ELSE TRUE]
  /\ UNCHANGED <<csrfToken, login, fetch, alert, last, feed, home, ui, server, map>>

\* NotificationService.ts:243-248: cleanup() removes the listeners (native)
\* and clears the flag.  The initialize() calls under way go on.
NotifCleanup ==
  /\ notif' = [notif EXCEPT !.isInitialized = FALSE, !.nRegister = 0]
  /\ UNCHANGED <<csrfToken, login, fetch, alert, last, feed, home, ui, server, map>>

-----------------------------------------------------------------------------
(* MapView.tsx: the map, on two devices side by side.  The two runs get    *)
(* the same reports and the same user actions; only the position the       *)
(* device reports to map.locate() may differ.  Positions and views are     *)
(* tile coordinates <<x, y>> of the tile layer at the map's zoom; a        *)
(* request is the tile the map asks the tile server for, the tile under    *)
(* the centre of the view.                                                 *)

\* Lines 27-28, 154-198, 201-211: no reports yet, so getMapCenter() is
\* [39.8283, -98.5795] and getMapZoom() is 4 (16 by 16 tiles; that centre is
\* in tile <<3, 6>>); position is null, written <<>>; the TileLayer loads
\* https://{s}.tile.openstreetmap.org/{z}/{x}/{y}.png for the view.
MapIdle ==
  [zoom |-> 4,
   position |-> [r \in 1..2 |-> <<>>],
   view |-> [r \in 1..2 |-> <<3, 6>>],
   request |-> [r \in 1..2 |->
                 [host |-> "tile.openstreetmap.org", z |-> 4, x |-> 3, y |-> 6]]]

\* Lines 31-36: map.locate() reports the device's position once;
\* d[r] is the position of the device of run r.  The handler stores it for
\* the marker and flies the map to it, and the tile layer loads the new view.
MapLocationFound(d) ==
  /\ map.position[1] = <<>>
  /\ map' = [map EXCEPT
       !.position = [r \in 1..2 |-> d[r]],
       !.view = [r \in 1..2 |-> d[r]],
       !.request = [r \in 1..2 |->
                     [map.request[r] EXCEPT !.x = d[r][1], !.y = d[r][2]]]]
  /\ UNCHANGED <<csrfToken, login, fetch, alert, last, feed, home, ui, server, notif>>

\* Lines 201-211: the user drags the map by <<dx, dy>> tiles, the same drag
\* in both runs; the map wraps around horizontally and stops at its upper
\* and lower edge, and the tile layer loads the new view.
MapMove(dx, dy) ==
  LET n == 2 ^ map.zoom
      moved(v) == << (v[1] + dx + n) % n,
                     IF v[2] + dy < 0 THEN 0
                     ELSE IF v[2] + dy > n - 1 THEN n - 1 ELSE v[2] + dy >>
  IN
  /\ <<dx, dy>> # <<0, 0>>
  /\ map' = [map EXCEPT
       !.view = [r \in 1..2 |-> moved(map.view[r])],
       !.request = [r \in 1..2 |->
                     [map.request[r] EXCEPT !.x = moved(map.view[r])[1],
                                            !.y = moved(map.view[r])[2]]]]
  /\ UNCHANGED <<csrfToken, login, fetch, alert, last, feed, home, ui, server, notif>>

-----------------------------------------------------------------------------
(* The initial state, and the API client driven by arbitrary callers.      *)

Init ==
  /\ csrfToken = Null
  /\ login = [c \in LoginIds |-> LoginIdle]
  /\ fetch = [f \in FetchIds |-> FetchIdle]
  /\ alert = [a \in AlertIds |-> AlertIdle]
  /\ last = NoStep
  /\ feed = FeedIdle
  /\ home = HomeIdle
  /\ ui = UiIdle
  /\ server = [e \in {WebSubscription.endpoint, DummySubscription.endpoint,
                     FcmSubscription.endpoint} |-> <<>>]
  /\ notif = NotifIdle
  /\ map = MapIdle

Next ==
  \/ \E c \in LoginIds : LoginStart(c)
  \/ \E c \in LoginIds, resp \in InitialResponses : LoginInitialResponse(c, resp)
  \/ \E c \in LoginIds, error \in AxiosErrors : LoginInitialFail(c, error)
  \/ \E c \in LoginIds, solution \in Solutions \cup {NoSolution} : LoginSolved(c, solution)
  \/ \E c \in LoginIds, tok \in TokenFields : LoginSubmitOk(c, tok)
  \/ \E c \in LoginIds, error \in AxiosErrors : LoginSubmitFail(c, error)
  \/ \E f \in FetchIds : GetReportsStart(f)
  \/ \E f \in FetchIds, bytes \in ApiReportBytes : GetReportsResponse(f, bytes)
  \/ \E f \in FetchIds, error \in AxiosErrors : GetReportsFail(f, error)
  \/ \E a \in AlertIds, sub \in Subscriptions, center \in Centers, radiusMeters \in Radii :
       SubscribeStart(a, sub, center, radiusMeters)
  \/ \E a \in AlertIds, given \in Subscriptions \cup {NoSubscription},
        found \in Subscriptions \cup {NoSubscription} : UnsubscribeStart(a, given, found)
  \/ \E a \in AlertIds : AlertResponse(a)
  \/ \E a \in AlertIds, error \in AxiosErrors : AlertFail(a, error)

Spec == Init /\ [][Next]_vars

-----------------------------------------------------------------------------
(* The secondary feed read once.                                           *)

FeedNext ==
  \/ FeedStart
  \/ \E doc \in Documents : FeedResponse(doc)
  \/ FeedElement
  \/ FeedReturn
  \/ \E error \in AxiosErrors : FeedFail(error)

SpecFeed == Init /\ [][FeedNext]_vars

-----------------------------------------------------------------------------
(* The Home page initialized over some localStorage.                       *)

HomeInit ==
  /\ csrfToken = Null
  /\ login = [c \in LoginIds |-> LoginIdle]
  /\ fetch = [f \in FetchIds |-> FetchIdle]
  /\ alert = [a \in AlertIds |-> AlertIdle]
  /\ last = NoStep
  /\ feed = FeedIdle
  /\ \E item \in InitialItems : home = HomeInitial(item)
  /\ ui = UiIdle
  /\ server = [e \in {WebSubscription.endpoint, DummySubscription.endpoint,
                     FcmSubscription.endpoint} |-> <<>>]
  /\ notif = NotifIdle
  /\ map = MapIdle

HomeNext ==
  \/ HomeMount
  \/ HomeCachedTimer
  \/ HomeLoginResolved
  \/ \E e \in LoginErrors : HomeLoginRejected(e)
  \/ \E data \in PrimaryData, stored \in BOOLEAN : HomeFetchResolved(data, stored)
  \/ \E e \in FetchErrors : HomeFetchRejected(e)
  \/ \E t \in {"status3000", "merged3000"} : HomeStatusTimer(t)
  \/ HomeStopIceTimer
  \/ \E call \in SecondaryCalls, stored \in BOOLEAN : HomeStopIceResolved(call, stored)

SpecHome == HomeInit /\ [][HomeNext]_vars

\* C3, as stated: the parser gives category 3 to "URGENT - needs backup",
\* 2 to "possible sighting", 1 to "unconfirmed tip" and 0 to "routine patrol".
C3_CategoryExamples ==
  \A k \in 1..Len(feed.reports) :
    LET r == feed.reports[k] IN
    /\ r.report_type = "URGENT - needs backup" => r.category_enum = 3
    /\ r.report_type = "possible sighting" => r.category_enum = 2
    /\ r.report_type = "unconfirmed tip" => r.category_enum = 1
    /\ r.report_type = "routine patrol" => r.category_enum = 0

-----------------------------------------------------------------------------
(* The alert handlers of Home on the web or on a native platform.          *)

AlertNext ==
  \/ HomeOpenModal
  \/ HomeCloseModal
  \/ HomeExplicitClose
  \/ HomeStartLocationSelection
  \/ \E center \in Centers : HomeLocationSelected(center)
  \/ HomeCancelLocationSelection
  \/ \E radius \in Radii : HomeSetAlertRadius(radius)
  \/ HomeUnhandledRejection
  \/ \E supported \in BOOLEAN : HomeSubscribe(supported)
  \/ \E ok \in BOOLEAN,
        sub \in {NoSubscription, WebSubscription, DummySubscription, FcmSubscription} :
       HomeSubscribeAwait(ok, sub)
  \/ \E stored \in BOOLEAN : HomeSubscribeSettled(stored)
  \/ \E found \in {WebSubscription, NoSubscription} : HomeClearActiveAlert(found)
  \/ HomeClearSettled
  \/ HomeSubscribeTimer
  \/ \E who \in {"run", "clear"}, accept \in BOOLEAN : ServerWrite(who, accept)

\* Home as first rendered, on the web or on a native platform.
SpecAlert ==
  /\ csrfToken = Null
  /\ login = [c \in LoginIds |-> LoginIdle]
  /\ fetch = [f \in FetchIds |-> FetchIdle]
  /\ alert = [a \in AlertIds |-> AlertIdle]
  /\ last = NoStep
  /\ feed = FeedIdle
  /\ home = HomeIdle
  /\ \E platform \in {"web", "native"} : ui = [UiIdle EXCEPT !.platform = platform]
  /\ server = [e \in {WebSubscription.endpoint, DummySubscription.endpoint,
                     FcmSubscription.endpoint} |-> <<>>]
  /\ notif = NotifIdle
  /\ map = MapIdle
  /\ [][AlertNext]_vars

\* Every call handleSubscribe awaits settles, the backend answers every post
\* and the timer of the success path fires.
SpecAlertFair ==
  /\ SpecAlert
  /\ WF_vars(\E ok \in BOOLEAN,
                 sub \in {NoSubscription, WebSubscription, DummySubscription,
                          FcmSubscription} : HomeSubscribeAwait(ok, sub))
  /\ WF_vars(\E stored \in BOOLEAN : HomeSubscribeSettled(stored))
  /\ WF_vars(\E who \in {"run", "clear"}, accept \in BOOLEAN : ServerWrite(who, accept))
  /\ WF_vars(HomeSubscribeTimer)

-----------------------------------------------------------------------------
(* NotificationService driven by arbitrary callers.                        *)

NotifNext ==
  \/ \E c \in 1..MaxInFlight, native \in BOOLEAN, supported \in BOOLEAN :
       NotifInitialize(c, native, supported)
  \/ \E c \in 1..MaxInFlight, ok \in BOOLEAN : NotifSettle(c, ok)
  \/ NotifCleanup

SpecNotify == Init /\ [][NotifNext]_vars

\* The map: the devices are in one of four tiles, and the user drags the map
\* one tile at a time.
MapNext ==
  \/ \E d \in {<<3, 6>>, <<4, 6>>, <<2, 5>>, <<9, 5>>}
                \X {<<3, 6>>, <<4, 6>>, <<2, 5>>, <<9, 5>>} : MapLocationFound(d)
  \/ \E dx \in {-1, 0, 1}, dy \in {-1, 0, 1} : MapMove(dx, dy)

SpecMap == Init /\ [][MapNext]_vars

-----------------------------------------------------------------------------
(* Properties of login(), getReports() and the interceptor, under Spec.    *)

\* A 401 or 403 from the server, or an error the client names so.
IsUnauthenticated(e) == e.status \in {401, 403} \/ e.message = "Unauthenticated"

\* C1, as stated: whenever the server issued a challenge and the submission
\* request succeeds, login() returns without an error and the stored session
\* token is non-empty when it returns.
C1_TokenNonEmptyAfterAcceptedSubmission ==
  last.op = "LoginSubmitOk" =>
    /\ last.call.pc = "returned"
    /\ last.call.err = NoError
    /\ Truthy(csrfToken)

\* C1, amended: whenever the submission request succeeds, login() returns
\* without an error; the stored token is then the csrf_token of the
\* submission response when that response carries a non-empty one, and is
\* otherwise what it was before the response arrived (absent, if nothing
\* had been stored).
C1_SubmissionStoresTokenIfAvailable ==
  last.op = "LoginSubmitOk" =>
    /\ last.call.pc = "returned"
    /\ last.call.err = NoError
    /\ Truthy(last.tok) => (csrfToken = last.tok /\ last.call.writes = 1)
    /\ ~Truthy(last.tok) => (csrfToken = last.tokenBefore /\ last.call.writes = 0)

\* C1 witness: an accepted submission whose token replaces the absent one.
C1_Witness ==
  /\ last.op = "LoginSubmitOk"
  /\ last.tok = "tokA"
  /\ last.tokenBefore = Null
  /\ csrfToken = "tokA"
  /\ last.call.pc = "returned"

C4_DirectTokenSkipsChallenge ==
  (last.op = "LoginInitialResponse" /\ Truthy(last.resp.data.csrf_token)) =>
    /\ last.call.pc = "returned"
    /\ last.call.err = NoError
    /\ csrfToken = last.resp.data.csrf_token
    /\ last.call.writes = 1
    /\ last.call.nInitial = 1
    /\ last.call.nSubmit = 0
    /\ last.call.nSolve = 0
    /\ last.request = NoRequest
    /\ login[last.id] = LoginIdle

\* C4 witness: the response holds a token and a challenge in both places.
C4_Witness ==
  /\ last.op = "LoginInitialResponse"
  /\ last.resp.data.csrf_token = "tokB"
  /\ last.resp.data.challenge = BodyChallenge.challenge
  /\ last.resp.xAltcha = JsonText(HeaderChallenge)
  /\ last.call.pc = "returned"
  /\ csrfToken = "tokB"

\* C5: once the session token is set it stays set, and every request sent to
\* the primary backend while it is set (by login, getReports,
\* subscribeToAlerts or unsubscribeFromAlerts) carries X-CSRFToken equal to
\* the token stored when the request is sent.
C5_TokenAttachedToEveryRequest ==
  /\ Truthy(last.tokenBefore) => Truthy(csrfToken)
  /\ (last.request # NoRequest /\ Truthy(last.tokenBefore)) =>
       /\ last.request.headers.xCsrfToken = last.tokenBefore
       /\ csrfToken = last.tokenBefore

\* C5 witness: an unsubscribe request sent while tokB is stored carries it.
C5_Witness ==
  /\ last.op = "UnsubscribeStart"
  /\ last.request # NoRequest
  /\ last.tokenBefore = "tokB"
  /\ last.request.headers.xCsrfToken = "tokB"

\* C6: when the response to the first request holds no csrf_token, no
\* X-Altcha header and no challenge field, login() fails with the protocol
\* error; the solver is not invoked, no submission is sent and the stored
\* token is left as it was.
C6_NothingInResponseIsProtocolError ==
  ( /\ last.op = "LoginInitialResponse"
    /\ ~Truthy(last.resp.data.csrf_token)
    /\ last.resp.xAltcha = NoHeader
    /\ ~Truthy(last.resp.data.challenge) ) =>
    /\ last.call.pc = "threw"
    /\ last.call.err = ProtocolError
    /\ last.call.nSolve = 0
    /\ last.call.nSubmit = 0
    /\ last.request = NoRequest
    /\ last.call.writes = 0
    /\ csrfToken = last.tokenBefore

\* C6 witness: the protocol error leaves a token stored earlier in place.
C6_Witness ==
  /\ last.op = "LoginInitialResponse"
  /\ last.resp = [data |-> Body(Undefined, NoChallenge), xAltcha |-> NoHeader]
  /\ last.call.err = ProtocolError
  /\ last.tokenBefore = "tokA"
  /\ csrfToken = "tokA"

\* C7: when the solver returns no solution, login() fails with an error, no
\* submission is sent and the stored token is left as it was.
C7_NoSolutionIsFatal ==
  (last.op = "LoginSolved" /\ ~last.solution.found) =>
    /\ last.call.pc = "threw"
    /\ last.call.err = UnsolvedError
    /\ last.call.nSubmit = 0
    /\ last.request = NoRequest
    /\ last.call.writes = 0
    /\ csrfToken = last.tokenBefore

\* C7 witness: the solver gives up on a challenge taken from the header.
C7_Witness ==
  /\ last.op = "LoginSolved"
  /\ last.solution = NoSolution
  /\ last.call.challengeData = HeaderChallenge
  /\ last.call.pc = "threw"
  /\ last.tokenBefore = "tokA"

\* C8: when the submission request fails, login() fails with the very error
\* the request failed with, and never assigns the stored token.
C8_SubmissionErrorPropagatesUnchanged ==
  last.op = "LoginSubmitFail" =>
    /\ last.call.pc = "threw"
    /\ last.call.err = last.error
    /\ last.call.writes = 0
    /\ csrfToken = last.tokenBefore

\* C8 witness: a 403 on the submission, with a token stored earlier.
C8_Witness ==
  /\ last.op = "LoginSubmitFail"
  /\ last.error = Http403
  /\ last.call.err = Http403
  /\ last.tokenBefore = "tokB"
  /\ csrfToken = "tokB"

\* The counters of one login() call are those of a call that sends each
\* request once and holds at most one challenge it has not submitted.
LoginCallInBounds(call) ==
  /\ call.nInitial <= 1
  /\ call.nSubmit <= 1
  /\ call.nSolve <= 1
  /\ call.nSolve - call.nSubmit \in {0, 1}
  /\ call.pc = "idle" => (call.nInitial = 0 /\ call.nSubmit = 0 /\ call.nSolve = 0)
  /\ call.pc = "awaitInitial" => (call.nInitial = 1 /\ call.nSubmit = 0 /\ call.nSolve = 0)
  /\ call.pc = "solving" => (call.nInitial = 1 /\ call.nSubmit = 0 /\ call.nSolve = 1)
  /\ call.pc = "awaitSubmit" => (call.nInitial = 1 /\ call.nSubmit = 1 /\ call.nSolve = 1)

\* C9: a login() call sends at most one first request and at most one
\* submission and never sends either again; a failure of either request ends
\* the call with that error; the call obtains at most one challenge and
\* submits it at most once, so it never holds more than one challenge it has
\* not submitted.
C9_NoRetryOneChallenge ==
  /\ \A c \in LoginIds : LoginCallInBounds(login[c])
  /\ last.kind = "login" => LoginCallInBounds(last.call)
  /\ last.op \in {"LoginInitialFail", "LoginSubmitFail"} =>
       /\ last.call.pc = "threw"
       /\ last.call.err = last.error
       /\ last.request = NoRequest
       /\ login[last.id] = LoginIdle

\* C9 witness: a call that sent both requests ends on the submission's failure
\* while another call holds a challenge it has not submitted yet.
C9_Witness ==
  /\ last.op = "LoginSubmitFail"
  /\ last.call.nInitial = 1
  /\ last.call.nSubmit = 1
  /\ last.call.pc = "threw"
  /\ \E c \in LoginIds : login[c].pc = "solving"

-----------------------------------------------------------------------------
(* Properties of the merge in the initialization sequence (SpecHome).      *)

\* The ids of the reports of a list.
IdsOf(list) == { list[j].id : j \in 1..Len(list) }

\* C10: once the secondary reports have arrived, the list shown is the
\* primary list, in its order, followed by exactly the secondary reports
\* whose id no primary report has, in their order; so its length is the
\* primary list's plus the number of those secondary reports.
C10_MergeIsPrimaryThenNewSecondary ==
  home.stopIce = "merged" =>
    LET primary   == home.points
        secondary == home.stopIceReports
        merged    == home.reports
        IsNew(s)  == s.id \notin IdsOf(primary)
        added     == { k \in 1..Len(secondary) : IsNew(secondary[k]) }
    IN  /\ merged = primary \o SelectSeq(secondary, IsNew)
        /\ SubSeq(merged, 1, Len(primary)) = primary
        /\ Len(merged) = Len(primary) + Cardinality(added)

\* A merge of a non-empty primary list with secondary reports of which one
\* was dropped for its id and one was added.
C10_Witness ==
  /\ home.stopIce = "merged"
  /\ Len(home.points) > 0
  /\ Len(home.reports) > Len(home.points)
  /\ Len(home.reports) < Len(home.points) + Len(home.stopIceReports)


\* C11: when the secondary feed gives an empty list, the list shown and the
\* list saved are the primary list as it was fetched: the same reports in
\* the same order.
C11_EmptySecondaryLeavesPrimary ==
  (home.stopIce = "merged" /\ home.received = <<>>) =>
    /\ home.reports = home.fetched
    /\ Len(home.reports) = Len(home.fetched)
    /\ \A j \in 1..Len(home.fetched) : home.reports[j] = home.fetched[j]
    /\ home.item = JsonStringify(home.fetched)
    /\ home.points = home.fetched

\* C11 witness: an empty document arrives when two primary reports are shown.
C11_Witness ==
  /\ home.stopIce = "merged"
  /\ home.outcome = FeedOk(<<>>)
  /\ home.received = <<>>
  /\ Len(home.fetched) = 2
  /\ home.reports = home.fetched


\* C12: when the primary list is empty, the list shown after the secondary
\* feed arrived is exactly the secondary list: every report of it, those
\* repeating an id of another one too, in their order.
C12_EmptyPrimaryYieldsSecondary ==
  (home.stopIce = "merged" /\ home.fetched = <<>>) =>
    /\ home.reports = home.received
    /\ Len(home.reports) = Len(home.received)

\* C12 witness: two secondary reports with one id arrive over no primary
\* report.
C12_Witness ==
  /\ home.stopIce = "merged"
  /\ home.fetched = <<>>
  /\ Len(home.received) = 2
  /\ home.received[1].id = home.received[2].id
  /\ home.reports = home.received

\* C13: the merge leaves both its lists as they were, so that running it
\* again on them gives the list it gave; and it is not commutative: when
\* both lists are non-empty and begin with different reports, merging them
\* the other way round gives another list.
C13_MergeIdempotentNotCommutative ==
  home.stopIce = "merged" =>
    /\ home.points = home.fetched
    /\ home.stopIceReports = home.received
    /\ Len(home.received) > 0 =>
         MergeStep(home.points, home.stopIceReports).combinedReports = home.reports
    /\ (Len(home.fetched) > 0 /\ Len(home.received) > 0
          /\ home.fetched[1] # home.received[1]) =>
         CombinedReports(home.fetched, home.received)
           # CombinedReports(home.received, home.fetched)

\* C13 witness: a merge that dropped a secondary report for its id and whose
\* result is not the one of the merge the other way round.
C13_Witness ==
  /\ home.stopIce = "merged"
  /\ Len(home.fetched) > 0
  /\ Len(home.received) > 0
  /\ Len(home.reports) < Len(home.fetched) + Len(home.received)
  /\ home.reports # CombinedReports(home.received, home.fetched)
  /\ MergeStep(home.fetched, home.received).combinedReports = home.reports

\* C14: every primary report is kept, also one repeating the id of another
\* primary report; a secondary report is dropped if and only if its id is
\* the id of some primary report, so one repeating the id of another
\* secondary report is kept with it.
C14_OnlyCrossSourceDuplicatesRemoved ==
  (home.stopIce = "merged" /\ Len(home.received) > 0) =>
    LET p       == home.fetched
        q       == home.received
        m       == home.reports
        kept    == { k \in 1..Len(q) : \A j \in 1..Len(p) : p[j].id # q[k].id }
        rank(k) == Cardinality({ i \in kept : i <= k })
    IN  /\ Len(m) = Len(p) + Cardinality(kept)
        /\ \A j \in 1..Len(p) : m[j] = p[j]
        /\ \A k \in kept : m[Len(p) + rank(k)] = q[k]
        /\ \A k \in 1..Len(q) :
             (k \notin kept) <=> (\E j \in 1..Len(p) : p[j].id = q[k].id)

\* C14 witness: the primary list repeats an id, the secondary list repeats
\* another, and all four reports are shown.
C14_Witness ==
  /\ home.stopIce = "merged"
  /\ Len(home.fetched) = 2
  /\ home.fetched[1].id = home.fetched[2].id
  /\ home.fetched[1] # home.fetched[2]
  /\ Len(home.received) = 2
  /\ home.received[1].id = home.received[2].id
  /\ home.received[1] # home.received[2]
  /\ Len(home.reports) = 4


-----------------------------------------------------------------------------
(* Properties of the secondary-feed parser (SpecFeed).                     *)

\* C15: the category of every report the parser builds follows from its
\* priority text, letter case ignored, by the first rule that applies: 3
\* when the text contains "urgent" or "confirmed", else 2 when it contains
\* "sighting", else 1 when it contains "unconfirmed", else 0.
C15_CategoryIsFirstMatch ==
  \A k \in 1..Len(feed.reports) :
    LET r       == feed.reports[k]
        text    == ToLowerCase(r.report_type)
        has(w)  == Includes(text, w)
        first   == has("urgent") \/ has("confirmed")
        second  == ~first /\ has("sighting")
        third   == ~first /\ ~second /\ has("unconfirmed")
    IN  /\ first => r.category_enum = 3
        /\ second => r.category_enum = 2
        /\ third => r.category_enum = 1
        /\ (~first /\ ~second /\ ~third) => r.category_enum = 0

\* C15 witness: a priority that all three rules match, in capitals, gets the
\* category of the first.
C15_Witness ==
  \E k \in 1..Len(feed.reports) :
    /\ feed.reports[k].report_type = "Unconfirmed Sighting"
    /\ feed.reports[k].category_enum = 3


\* A text that parseFloat reads a number from: after blanks and a sign it
\* begins with a digit, with a point and a digit, or with Infinity.
IsNumericText(str) ==
  LET s == Drop(str, Span(str, " "))
      t == IF Len(s) > 0 /\ Char(s, 1) \in {"+", "-"} THEN Drop(s, 1) ELSE s
  IN  \/ Len(t) > 0 /\ OneOf(Char(t, 1), Digits)
      \/ Len(t) > 1 /\ Char(t, 1) = "." /\ OneOf(Char(t, 2), Digits)
      \/ StartsWith(t, "Infinity")

\* C16: the parser returns one report for each element whose latitude and
\* longitude both read as numbers, in the order of the document, and nothing
\* for the other elements; so three elements of which exactly one has a
\* latitude that is no number, the longitudes being numbers, give two
\* reports.
C16_OneReportPerNumericElement ==
  feed.pc = "returned" =>
    LET doc     == feed.doc
        good    == { k \in 1..Len(doc) :
                       IsNumericText(doc[k].lat) /\ IsNumericText(doc[k].long) }
        rank(k) == Cardinality({ i \in good : i <= k })
        badLat  == { k \in 1..Len(doc) : ~IsNumericText(doc[k].lat) }
    IN  /\ Len(feed.result) = Cardinality(good)
        /\ \A k \in good :
             /\ feed.result[rank(k)].id = [type |-> "string", value |-> doc[k].id]
             /\ feed.result[rank(k)].report_type = doc[k].thispriority
             /\ feed.result[rank(k)].source = "stopice.net"
        /\ ( /\ Len(doc) = 3
             /\ Cardinality(badLat) = 1
             /\ \A k \in 1..Len(doc) : IsNumericText(doc[k].long) ) =>
             Len(feed.result) = 2

\* C16 witness: of three elements the second has the latitude "abc"; the
\* first and the third are returned, in this order.
C16_Witness ==
  /\ feed.pc = "returned"
  /\ Len(feed.doc) = 3
  /\ feed.doc[2].lat = "abc"
  /\ feed.doc[1].thispriority = "possible sighting"
  /\ feed.doc[3].thispriority = "routine patrol"
  /\ feed.doc[3].lat = " 12.5xyz"
  /\ Len(feed.result) = 2
  /\ feed.result[1].report_type = "possible sighting"
  /\ feed.result[2].report_type = "routine patrol"


-----------------------------------------------------------------------------
(* Properties of the initialization sequence (SpecHome).                   *)

C18_BothShapesAccepted ==
  (home.fetchOk /\ home.data.shape \in {"array", "object"}) =>
    /\ home.err # TypeError
    /\ home.data.shape = "array" => home.fetched = home.data.list
    /\ (home.data.shape = "object" /\ home.data.hasResults) =>
         home.fetched = home.data.list
    /\ (home.data.shape = "object" /\ ~home.data.hasResults) => home.fetched = <<>>
    /\ home.pc = "done" => home.points = home.fetched
    /\ (home.pc = "done" /\ home.stopIce = "waiting") =>
         /\ home.reports = home.fetched
         /\ home.item = JsonStringify(home.fetched)

\* C18 witness: an envelope without a results field is shown as no reports.
C18_Witness ==
  /\ home.fetchOk
  /\ home.data = BareEnvelope
  /\ home.pc = "done"
  /\ home.err = NoError
  /\ home.reports = <<>>
  /\ home.status = Status("Loaded reports", 0)

\* C19: the sequence calls login(), getReports() and getStopIceReports() at
\* most once each; getReports() only when login() has resolved,
\* getStopIceReports() only when getReports() has resolved and its list was
\* taken, the merge only when both lists are there; when login() or the
\* primary fetch fails nothing later in the sequence runs.
C19_StepsInOrder ==
  /\ home.nLogin <= 1 /\ home.nFetch <= 1 /\ home.nStopIce <= 1
  /\ home.nFetch = 1 => (home.nLogin = 1 /\ home.loginOk)
  /\ home.fetchOk => home.nFetch = 1
  /\ home.nStopIce = 1 => (home.fetchOk /\ home.pc = "done")
  /\ home.stopIce \in {"waiting", "await", "merged"} => (home.fetchOk /\ home.pc = "done")
  /\ home.stopIce = "merged" => home.nStopIce = 1
  /\ (home.pc = "failed" /\ ~home.loginOk) => (home.nFetch = 0 /\ ~home.fetchOk)
  /\ home.pc = "failed" =>
       /\ home.nStopIce = 0
       /\ home.stopIce = "none"
       /\ "stopice1000" \notin home.timers
       /\ home.received = <<>>
  /\ home.pc \in {"idle", "login"} => (home.nFetch = 0 /\ home.nStopIce = 0)
  /\ home.pc = "fetch" => home.nStopIce = 0

\* C19 witness: a whole run: one login, one primary fetch, one secondary
\* fetch, and a merge that added a report.
C19_Witness ==
  /\ home.stopIce = "merged"
  /\ home.nLogin = 1 /\ home.nFetch = 1 /\ home.nStopIce = 1
  /\ home.loginOk /\ home.fetchOk
  /\ Len(home.fetched) > 0
  /\ Len(home.reports) > Len(home.fetched)
  /\ home.mounts = 2


-----------------------------------------------------------------------------
(* Properties of the alert calls (Spec).                                   *)

\* C20: unsubscribeFromAlerts, given or finding a subscription, sends one
\* request to the alert-registration endpoint, with no alert in its alerts
\* list and with that subscription's endpoint; subscribeToAlerts sends one
\* request whose alerts list holds exactly one alert, with the centre and the
\* radius it was called with.  Neither call sends a second request.
C20_UnsubscribeSendsEmptyAlerts ==
  /\ \A a \in AlertIds : alert[a].nPost <= 1
  /\ last.kind = "alert" => last.call.nPost <= 1
  /\ last.op \in {"AlertResponse", "AlertFail"} => last.request = NoRequest
  /\ ( /\ last.op = "UnsubscribeStart"
       /\ (last.args.subscription # NoSubscription \/ last.args.found # NoSubscription) ) =>
       LET sub == IF last.args.subscription # NoSubscription
                  THEN last.args.subscription ELSE last.args.found
       IN  /\ last.call.nPost = 1
           /\ last.request.method = "POST"
           /\ last.request.url = "/api/push-notifications-write/"
           /\ last.request.body.alerts = <<>>
           /\ last.request.body.push_subscription.endpoint = sub.endpoint
  /\ last.op = "SubscribeStart" =>
       /\ last.call.nPost = 1
       /\ last.request.method = "POST"
       /\ last.request.url = "/api/push-notifications-write/"
       /\ Len(last.request.body.alerts) = 1
       /\ last.request.body.alerts[1].radius = last.args.radiusMeters
       /\ last.request.body.alerts[1].location.coordinates
            = <<last.args.center[2], last.args.center[1]>>
       /\ last.request.body.push_subscription.endpoint = last.args.subscription.endpoint

\* C20 witness: unsubscribeFromAlerts is called without a subscription, finds
\* the device's and sends its endpoint with no alerts.
C20_Witness ==
  /\ last.op = "UnsubscribeStart"
  /\ last.args.subscription = NoSubscription
  /\ last.args.found = DummySubscription
  /\ last.request.body.alerts = <<>>
  /\ last.request.body.push_subscription.endpoint = DummySubscription.endpoint
  /\ last.call.nPost = 1


-----------------------------------------------------------------------------
(* Properties of the session token (Spec).                                 *)

\* C22: csrfToken changes only in a step of login() that ends the call, the
\* one assignment that call makes, and never to an absent or empty value;
\* a call that assigns it leaves its own token stored whatever another call
\* stored while it ran, so of two overlapping calls the one whose response
\* is handled last decides the token.
C22_TokenWrittenOnlyByLoginLastWins ==
  /\ csrfToken # Null => Truthy(csrfToken)
  /\ \A c \in LoginIds : login[c].writes = 0
  /\ last.kind = "login" => last.call.writes <= 1
  /\ csrfToken # last.tokenBefore =>
       /\ last.op \in {"LoginInitialResponse", "LoginSubmitOk"}
       /\ last.call.pc = "returned"
       /\ last.call.writes = 1
  /\ (last.kind = "login" /\ last.call.writes = 1) =>
       /\ last.call.pc = "returned"
       /\ last.op = "LoginInitialResponse" => csrfToken = last.resp.data.csrf_token
       /\ last.op = "LoginSubmitOk" => csrfToken = last.tok
  /\ (last.kind # "login" \/ last.call.writes = 0) => csrfToken = last.tokenBefore

\* C22 witness: while another call is still waiting for its submission, a
\* call ends, finds tokA stored by an earlier call and leaves its own tokB.
C22_Witness ==
  /\ last.op = "LoginSubmitOk"
  /\ last.tokenBefore = "tokA"
  /\ last.tok = "tokB"
  /\ csrfToken = "tokB"
  /\ \E c \in LoginIds : login[c].pc = "awaitSubmit"


-----------------------------------------------------------------------------
(* Properties of the initialization of Home (SpecHome).                    *)

\* C23: as long as no primary fetch has resolved, the 'iceout_reports' item
\* is never written and the displayed list is the list read from it; and
\* when login() or getReports() has rejected, isLoading is false.  So with a
\* non-empty snapshot a failed initialization leaves the cached list shown
\* and stored.
C23_CachedReportsSurviveFailure ==
  /\ [](~home.fetchOk => home.reports = GetCachedReports(home.item))
  /\ []((home.pc = "failed" /\ ~home.fetchOk) => ~home.isLoading)
  /\ [][~home.fetchOk' => home.item' = home.item]_vars

\* C23 witness: a non-empty snapshot, getReports() rejected after login()
\* resolved; the cached list is shown and the loading state is over.
C23_Witness ==
  /\ home.pc = "failed"
  /\ home.loginOk /\ ~home.fetchOk
  /\ Len(GetCachedReports(home.item)) > 0
  /\ home.reports = GetCachedReports(home.item)
  /\ ~home.isLoading

\* C25: once login() or getReports() has rejected, the status shows the
\* error message of that rejection.
C25_ErrorStatusStays ==
  (home.pc = "failed" /\ ~home.fetchOk) =>
     home.status = Status("Error: " \o home.err.message, 0)

\* C29: whatever the number of runs of the effect, login() and getReports()
\* are each called at most once.
C29_InitRunsOnce ==
  /\ home.nLogin <= 1
  /\ home.nFetch <= 1
  /\ home.hasInitialized <=> home.nLogin = 1

\* C29 witness: the effect ran a second time and still one login() and one
\* getReports() were called.
C29_Witness ==
  /\ home.mounts >= 2
  /\ home.nLogin = 1
  /\ home.nFetch = 1


-----------------------------------------------------------------------------
(* Properties of the alert handlers of Home (SpecAlert, SpecAlertFair).    *)

\* C21: in every state where neither a subscribeToAlerts nor an
\* unsubscribeFromAlerts request is under way, the client holds an active
\* alert (activeAlert and the storage key) exactly when the backend's alert
\* list of the endpoint it subscribed with is not empty.
C21_AlertMirroredOnServer ==
  (ui.run.pc \notin {"post", "response"} /\ ui.clear.pc = "idle") =>
    ((ui.activeAlert # UiIdle.activeAlert /\ ui.item # UiIdle.activeAlert)
       <=> (ui.endpoint # Undefined /\ server[ui.endpoint] # <<>>))

\* C26: a step that records an alert, in activeAlert or under the storage
\* key, is the step of a handleSubscribe run whose subscribeToAlerts resolved,
\* and what it records is the centre and radius that run posted; a step
\* through the catch of handleSubscribe changes neither.
C26_AlertRecordedOnlyAfterBackendAccepted ==
  [][ /\ ((ui'.activeAlert # ui.activeAlert /\ ui'.activeAlert # UiIdle.activeAlert)
            \/ (ui'.item # ui.item /\ ui'.item # UiIdle.activeAlert)) =>
          /\ ui.run.pc = "response" /\ ui.run.ok
          /\ ui'.activeAlert = [center |-> ui.run.center, radius |-> ui.run.radius]
          /\ ui'.item \in {ui.item, ui'.activeAlert}
      /\ ui'.ev = "failed" =>
          /\ ui'.activeAlert = ui.activeAlert
          /\ ui'.item = ui.item
    ]_vars

\* C26 witness: the backend refused an alert while another was recorded,
\* and that one is still there and stored.
C26_Witness ==
  /\ ui.ev = "failed"
  /\ ui.activeAlert # UiIdle.activeAlert
  /\ ui.item = ui.activeAlert
  /\ ui.alertCenter # <<>> /\ ui.alertCenter # ui.activeAlert.center
  /\ ~ui.isSubscribing

\* C27: the modal is never open while a location is being selected, and a
\* dismiss that arrives during the selection changes neither showModal nor
\* alertCenter.
C27_ModalClosedWhileSelecting ==
  /\ [](~(ui.showModal /\ ui.isSelectingLocation))
  /\ [][(ui.isSelectingLocation /\ ui'.ev = "dismiss") =>
          (ui'.showModal = ui.showModal /\ ui'.alertCenter = ui.alertCenter)]_vars

\* C27 witness: a dismiss arrived while a new location was being selected;
\* the modal is closed and the centre chosen before is kept.
C27_Witness ==
  /\ ui.ev = "dismiss"
  /\ ui.isSelectingLocation
  /\ ~ui.showModal
  /\ ui.alertCenter # <<>>

\* C28: a handleSubscribe run under way comes to its end, and when it has
\* ended isSubscribing is false: it set it back in the catch or in the
\* timer of the success path.
C28_SubscribingEnds ==
  (ui.run.pc # "idle") ~> (ui.run.pc = "idle" /\ ~ui.isSubscribing)

\* C28 witness: a run that succeeded was ended by its timer, and the button
\* is enabled again.
C28_Witness ==
  /\ ui.ev = "closed"
  /\ ui.run.pc = "idle"
  /\ ~ui.isSubscribing
  /\ ui.activeAlert # UiIdle.activeAlert


-----------------------------------------------------------------------------
(* Properties of NotificationService (SpecNotify).                         *)

\* C30: between two cleanup() calls the platform initialization is begun at
\* most once, however many initialize() calls there are and however they
\* overlap.
C30_PlatformInitializedOnce ==
  notif.nRegister <= 1

\* C24: the device's own position stays on the device: two runs that differ
\* only in the position map.locate() reports, with the same user actions,
\* send the same requests.
C24_DeviceLocationStaysOnDevice ==
  map.request[1] = map.request[2]

=============================================================================
